---- MODULE Spec2Model ----
(***************************************************************************)
(* A model of the remuneration-report pipeline of CG_LLM:                  *)
(*   pdf_rem_extractor.py    section boundary detection                    *)
(*   financial_extractor.py  windowed EPS / profit scanner                 *)
(*   postprocess_facts.py    derived fields of the facts dict              *)
(*   pipeline_extract_from_pdf.py, predict_from_pdf.py                     *)
(*                           the pipeline of one document, and two runs    *)
(*                           of it side by side                            *)
(*                                                                         *)
(* Text.  A page text is a sequence of tokens; the string the code sees    *)
(* is the tokens joined by single spaces.  The tokens of the model are     *)
(* words of letters and apostrophes (matched whole, as the patterns'       *)
(* \b and literal spaces match them) and number tokens described by        *)
(* Runs() below.  A document is a sequence of page texts; page i of the    *)
(* code (0-based) is pages[i + 1] here.                                    *)
(***************************************************************************)
EXTENDS Integers, Sequences, FiniteSets, TLC

VARIABLES
    pages,              \* the document: List[str] of load_pdf_pages / _read_pdf_pages
    pc,                 \* position in the function being run
    start_page,         \* choose_best_rem_start's result: None or Some(index)
    idx,                \* find_end_page: loop variable
    last_rem_like_idx,  \* find_end_page: last page with rem_score > 0
    gap_without_rem,    \* find_end_page: consecutive pages without signal
    end_page,           \* find_end_page's result: None until it returns
    stop,               \* how find_end_page returned: "none", "break", "fallback"
    candidate_pages,    \* extract_financial_performance: sorted candidate page indices
    ci,                 \* position of the loop of line 108 in candidate_pages (from 1)
    window_start,       \* bounds and text of the window last built (lines 111-113)
    window_end,
    window_text,
    best,               \* the dict of lines 79-86
    examined,           \* history: the candidate pages whose window was searched
    full_searches,      \* history: how often the full document was searched
    result,             \* the dict returned at lines 183-192, None before
    facts,              \* postprocess_facts: the facts dict it is given and mutates
    runs,               \* history: the number of the boundary detection being run
    first_range,        \* history: the outcome of the first boundary detection
    module_lists,       \* pdf_rem_extractor's module-level lists, which every call reads
    jobs,               \* predict_from_pdf.main, per run: pdf_path, its pages, the reply
                        \* the fact-filling collaborator gives for that document
    ppc,                \* per run: position in main / extract_facts_from_full_pdf
    rem,                \* per run: (rem_text, start_idx, end_idx) of line 12
    run_facts,          \* per run: the local facts dict of extract_facts_from_full_pdf
    files,              \* the file system: the content of each facts.json
    trace,              \* history, per run: the steps of the pipeline done so far
    reads,              \* history, per run: what the run loaded from its facts.json
    error               \* per run: the exception that ended the run, None if none


(***************************************************************************)
(* Optional values: Python's None and a present value.                     *)
(***************************************************************************)
None == <<>>
Some(v) == <<v>>
Val(o) == o[1]

Min(a, b) == IF a <= b THEN a ELSE b
Max(a, b) == IF a >= b THEN a ELSE b

(***************************************************************************)
(* Bounds of the model.                                                    *)
(***************************************************************************)
MaxDocLen == 6      \* every document of up to this many pages is explored
LongDocLen == 46    \* length of the long, sparsely filled documents

(***************************************************************************)
(* Text helpers.                                                           *)
(***************************************************************************)
\* str.lower() on one token
Lower(tok) ==
    CASE tok = "Remuneration" -> "remuneration"
      [] tok = "Report" -> "report"
      [] tok = "Consolidated" -> "consolidated"
      [] tok = "Financial" -> "financial"
      [] tok = "Statements" -> "statements"
      [] tok = "Basic" -> "basic"
      [] tok = "Earnings" -> "earnings"
      [] tok = "Profit" -> "profit"
      [] OTHER -> tok

LowerText(text) == [i \in DOMAIN text |-> Lower(text[i])]

\* the phrase (a token sequence) occurs in text at token position i
OccursAt(text, phrase, i) ==
    /\ i + Len(phrase) - 1 <= Len(text)
    /\ \A k \in 1..Len(phrase) : text[i + k - 1] = phrase[k]

\* re.search(pat, text): pat is the set of token phrases the pattern matches
Search(pat, text) ==
    \E i \in 1..Len(text) : \E ph \in pat : OccursAt(text, ph, i)

\* len(re.findall(pat, text)): the matches of one pattern start at distinct tokens
FindallCount(pat, text) ==
    Cardinality({i \in 1..Len(text) : \E ph \in pat : OccursAt(text, ph, i)})

RECURSIVE SumSeq(_)
SumSeq(s) == IF s = <<>> THEN 0 ELSE Head(s) + SumSeq(Tail(s))

\* "\n".join(pages[a:b]) for 0 <= a, b <= len(pages): the tokens of pages a .. b-1
RECURSIVE JoinPages(_, _, _)
JoinPages(pgs, a, b) ==
    IF a >= b THEN <<>> ELSE pgs[a + 1] \o JoinPages(pgs, a + 1, b)

(***************************************************************************)
(* pdf_rem_extractor.py: the pattern lists.                                *)
(***************************************************************************)
REM_REPORT_PATTERNS == <<
    {<<"remuneration", "report">>},
    {<<"remuneration", "report", "of", "the", "remuneration", "committee">>},
    {<<"directors", "remuneration", "report">>, <<"directors'", "remuneration", "report">>} >>

REM_KEYWORDS == <<
    {<<"remuneration">>},
    {<<"compensation">>},
    {<<"directors", "remuneration">>, <<"directors'", "remuneration">>},
    {<<"executive", "remuneration">>},
    {<<"managing", "board">>},
    {<<"supervisory", "board">>},
    {<<"board", "remuneration">>},
    {<<"non", "executive", "director">>},
    {<<"base", "salary">>},
    {<<"annual", "fixed", "salary">>},
    {<<"bonus">>},
    {<<"short", "term", "incentive">>},
    {<<"long", "term", "incentive">>},
    {<<"ltip">>},
    {<<"stip">>},
    {<<"total", "cash">>},
    {<<"pay", "ratio">>},
    {<<"termination", "benefit">>},
    {<<"severance">>} >>

BREAK_KEYWORDS == <<
    {<<"consolidated", "financial", "statements">>},
    {<<"separate", "financial", "statements">>},
    {<<"financial", "statements">>},
    {<<"notes", "to", "the", "financial", "statements">>,
     <<"notes", "to", "the", "consolidated", "financial", "statements">>},
    {<<"independent", "auditor's", "report">>, <<"independent", "auditors", "report">>},
    {<<"auditor's", "report">>, <<"auditors", "report">>},
    {<<"risk", "management">>},
    {<<"risk", "factors">>},
    {<<"corporate", "responsibility">>},
    {<<"sustainability", "report">>},
    {<<"non", "financial", "statement">>},
    {<<"management", "report">>},
    {<<"selected", "financial", "information">>} >>

\* the lists as the module's top-level code builds them at import
ModuleLists ==
    [REM_REPORT_PATTERNS |-> REM_REPORT_PATTERNS,
     REM_KEYWORDS |-> REM_KEYWORDS,
     BREAK_KEYWORDS |-> BREAK_KEYWORDS]

\* find_end_page's default parameters
max_pages == 40
min_pages == 3
max_gap_without_rem == 3
\* score_candidate's default window, and the front-matter threshold
window == 5
front_matter == 5

(***************************************************************************)
(* pdf_rem_extractor.py: the functions.                                    *)
(***************************************************************************)
\* the page matches one of REM_REPORT_PATTERNS, the list the module holds now
IsRemCandidate(text) ==
    \E p \in 1..Len(module_lists.REM_REPORT_PATTERNS) :
        Search(module_lists.REM_REPORT_PATTERNS[p], LowerText(text))

\* the candidate indices, 0-based (the code's list is in page order)
find_rem_candidate_indices(pgs) ==
    {i \in 0..(Len(pgs) - 1) : IsRemCandidate(pgs[i + 1])}

\* (rem_count, word_count) over pages idx .. idx+window-1, clipped
score_candidate(pgs, i) ==
    LET end == Min(Len(pgs), i + window)
        txt == JoinPages(pgs, i, end)
    IN  <<FindallCount({<<"remuneration">>}, LowerText(txt)), Len(txt)>>

\* a slip: on a full tie the earlier page is preferred
KeyLessEarlierWins(a, b) ==
    \/ a[1] < b[1]
    \/ a[1] = b[1] /\ a[2] < b[2]
    \/ a[1] = b[1] /\ a[2] = b[2] /\ a[3] > b[3]

\* the sort key of line 71, compared as Python compares tuples
KeyLess(a, b) ==
    \/ a[1] < b[1]
    \/ a[1] = b[1] /\ a[2] < b[2]
    \/ a[1] = b[1] /\ a[2] = b[2] /\ a[3] < b[3]

\* scored.sort(key=..., reverse=True): the entries in descending key order
RECURSIVE SortDesc(_)
SortDesc(S) ==
    IF S = {} THEN <<>>
    ELSE LET top == CHOOSE t \in S : \A u \in S \ {t} :
                        KeyLess(<<u[2], u[3], u[1]>>, <<t[2], t[3], t[1]>>)
         IN  <<top>> \o SortDesc(S \ {top})

\* a slip: the front-matter filter is left out
SurvivingCandidatesUnfiltered(cands) == cands

\* candidates = [i for i in candidates if i >= 5] or candidates
SurvivingCandidates(cands) ==
    LET late == {i \in cands : i >= front_matter}
    IN  IF late # {} THEN late ELSE cands

\* a slip: no fallback to the early candidates when the filter removes them all
choose_best_rem_start_no_fallback(pgs) ==
    LET late == {i \in find_rem_candidate_indices(pgs) : i >= front_matter}
        sc == [i \in late |-> score_candidate(pgs, i)]
        scored == {<<i, sc[i][1], sc[i][2]>> : i \in late}
    IN  IF late = {} THEN None ELSE Some(SortDesc(scored)[1][1])

choose_best_rem_start(pgs) ==
    LET candidates == find_rem_candidate_indices(pgs)
    IN  IF candidates = {} THEN None
        ELSE LET kept == SurvivingCandidates(candidates)
                 sc == [i \in kept |-> score_candidate(pgs, i)]
                 scored == {<<i, sc[i][1], sc[i][2]>> : i \in kept}
             IN  Some(SortDesc(scored)[1][1])

\* the matches of the patterns of two lists on one page
ScoreWith(text, rem_keywords, break_keywords) ==
    LET lower == LowerText(text)
    IN  <<SumSeq([p \in 1..Len(rem_keywords) |-> FindallCount(rem_keywords[p], lower)]),
          SumSeq([p \in 1..Len(break_keywords) |-> FindallCount(break_keywords[p], lower)])>>

\* (rem_score, break_score) of one page, from the lists the module holds now
score_page(text) == ScoreWith(text, module_lists.REM_KEYWORDS, module_lists.BREAK_KEYWORDS)

\* last_idx = min(len(pages) - 1, start_idx + max_pages)
\* a slip: the scan is not capped, it runs to the end of the document
LastIdxNoCap(pgs, s) == Len(pgs) - 1

LastIdx(pgs, s) == Min(Len(pgs) - 1, s + max_pages)

\* a slip: every scanned page is taken as the last signal page
NextLastRemLikeAlways(rem_score, i, last) == i

\* lines 176-180: the last signal page and the gap after scoring page i
NextLastRemLike(rem_score, i, last) == IF rem_score > 0 THEN i ELSE last

NextGap(rem_score, gap) == IF rem_score > 0 THEN 0 ELSE gap + 1

\* a slip: a break cue alone, or a gap alone, ends the section
BreakConditionEither(i, s, gap, break_score) ==
    /\ i >= s + min_pages
    /\ (gap >= max_gap_without_rem \/ break_score > 0)

\* a slip: a break marker ends the scan without a gap before it
BreakConditionNoGap(i, s, gap, break_score) ==
    /\ i >= s + min_pages
    /\ break_score > 0

\* the break condition of lines 183-187
BreakCondition(i, s, gap, break_score) ==
    /\ i >= s + min_pages
    /\ gap >= max_gap_without_rem
    /\ break_score > 0

(***************************************************************************)
(* financial_extractor.py: the text the regular expressions see.           *)
(*                                                                         *)
(* "\n".join(pages[a:b]) keeps a newline between pages: the joined text is *)
(* a token sequence with the token NL at every page join.  For the number  *)
(* patterns the text is read as a sequence of items: a run of digits (its  *)
(* value and its length), a single separator character (space, newline,    *)
(* "." or ","), or a word.  The number tokens of the model have runs of at *)
(* most four digits and none is "000".                                     *)
(***************************************************************************)
NL == "\n"

Item(kind, tok, val, len) == [k |-> kind, tok |-> tok, val |-> val, len |-> len]
D(val, len) == Item("d", "", val, len)
Dot == Item("dot", "", 0, 0)
Comma == Item("comma", "", 0, 0)
Sp == Item("sp", "", 0, 0)
Nl == Item("nl", "", 0, 0)

\* the characters of one token
TokenItems(tok) ==
    CASE tok = NL -> <<Nl>>
      [] tok = "2024" -> <<D(2024, 4)>>
      [] tok = "2023" -> <<D(2023, 4)>>
      [] tok = "0.45" -> <<D(0, 1), Dot, D(45, 2)>>
      [] tok = "0.39" -> <<D(0, 1), Dot, D(39, 2)>>
      [] tok = "0.52" -> <<D(0, 1), Dot, D(52, 2)>>
      [] tok = "0.48" -> <<D(0, 1), Dot, D(48, 2)>>
      [] tok = "0.00" -> <<D(0, 1), Dot, D(0, 2)>>
      [] tok = "1,234" -> <<D(1, 1), Comma, D(234, 3)>>
      [] tok = "1,100" -> <<D(1, 1), Comma, D(100, 3)>>
      [] tok = "1.234.567" -> <<D(1, 1), Dot, D(234, 3), Dot, D(567, 3)>>
      [] tok = "950" -> <<D(950, 3)>>
      [] OTHER -> <<Item("x", Lower(tok), 0, 0)>>

\* "\n".join(pages[a:b]) with its newlines: the tokens of pages a .. b-1
RECURSIVE JoinLines(_, _, _)
JoinLines(pgs, a, b) ==
    IF a >= b THEN <<>>
    ELSE IF a + 1 = b THEN pgs[a + 1]
    ELSE pgs[a + 1] \o <<NL>> \o JoinLines(pgs, a + 1, b)

\* the items of a text: tokens on one page are a single space apart
RECURSIVE Items(_)
Items(text) ==
    IF text = <<>> THEN <<>>
    ELSE LET h == Head(text)
             t == Tail(text)
         IN  TokenItems(h)
             \o (IF t # <<>> /\ h # NL /\ Head(t) # NL THEN <<Sp>> ELSE <<>>)
             \o Items(t)

IsD(its, p) == p >= 1 /\ p <= Len(its) /\ its[p].k = "d"
IsWs(its, p) == p >= 1 /\ p <= Len(its) /\ its[p].k \in {"sp", "nl"}
IsWord(its, p, w) == p >= 1 /\ p <= Len(its) /\ its[p].k = "x" /\ its[p].tok = w

\* the first digit run at or after p, or 0 (what [^\d]*? can reach from p)
RECURSIVE FirstDigit(_, _)
FirstDigit(its, p) ==
    IF p > Len(its) THEN 0 ELSE IF its[p].k = "d" THEN p ELSE FirstDigit(its, p + 1)

\* \s+ from p up to a digit run: that run's position, or 0
RECURSIVE WsThenDigit(_, _, _)
WsThenDigit(its, p, seen) ==
    IF IsWs(its, p) THEN WsThenDigit(its, p + 1, TRUE)
    ELSE IF seen /\ IsD(its, p) THEN p ELSE 0

\* the words w[1] \s+ w[2] \s+ ... from item p: the position after the last word, or 0
RECURSIVE SkipWs(_, _)
SkipWs(its, p) == IF IsWs(its, p) THEN SkipWs(its, p + 1) ELSE p

RECURSIVE WordsAt(_, _, _)
WordsAt(its, p, w) ==
    IF ~IsWord(its, p, Head(w)) THEN 0
    ELSE IF Len(w) = 1 THEN p + 1
    ELSE IF ~IsWs(its, p + 1) THEN 0
    ELSE WordsAt(its, SkipWs(its, p + 1), Tail(w))

Pow10(n) == <<10, 100, 1000, 10000, 100000, 1000000, 10000000, 100000000>>[n]

(***************************************************************************)
(* _parse_number: "," and " " are removed and float() is applied.  A       *)
(* number is [m, e], the value m / 10^e; None when float() raises          *)
(* (a newline inside the token, or two decimal points).                    *)
(***************************************************************************)
RECURSIVE Digits(_)
\* the digit runs of an item sequence, concatenated: <<value, length>>
Digits(its) ==
    IF its = <<>> THEN <<0, 0>>
    ELSE LET r == Digits(SubSeq(its, 1, Len(its) - 1))
             l == its[Len(its)]
         IN  IF l.k = "d" THEN <<r[1] * Pow10(l.len) + l.val, r[2] + l.len>> ELSE r

parse_number(s) ==
    IF s = None THEN None
    ELSE LET g == SelectSeq(Val(s), LAMBDA it : it.k \notin {"comma", "sp"})
             dots == {i \in 1..Len(g) : g[i].k = "dot"}
         IN  IF \E i \in 1..Len(g) : g[i].k \notin {"d", "dot"} THEN None
             ELSE IF Cardinality(dots) >= 2 THEN None
             ELSE IF dots = {} THEN Some([m |-> Digits(g)[1], e |-> 0])
             ELSE LET i == CHOOSE j \in dots : TRUE
                      int == Digits(SubSeq(g, 1, i - 1))
                      frac == Digits(SubSeq(g, i + 1, Len(g)))
                  IN  Some([m |-> int[1] * Pow10(frac[2]) + frac[1], e |-> frac[2]])

(***************************************************************************)
(* The three patterns.  A match is <<group 1, group 2>>, each group the    *)
(* items it captured; NoMatch when the pattern matches nowhere.            *)
(***************************************************************************)
NoMatch == <<>>

\* [0-9]+(?:\.[0-9]+)? taken greedily at the digit run p: the position after it
NumberEnd(its, p) == IF p + 1 <= Len(its) /\ its[p + 1].k = "dot" /\ IsD(its, p + 2) THEN p + 3 ELSE p + 1

\* ([0-9]+(?:\.[0-9]+)?)[^\d]+([0-9]+(?:\.[0-9]+)?) with group 1 at the digit run d:
\* greedy first; with no later number, "0.45" backtracks to "0" "." "45"
TwoNumbersAt(its, d) ==
    LET e1 == NumberEnd(its, d)
        d2 == FirstDigit(its, e1)
    IN  IF d2 # 0 THEN <<SubSeq(its, d, e1 - 1), SubSeq(its, d2, NumberEnd(its, d2) - 1)>>
        ELSE IF e1 = d + 3 THEN <<SubSeq(its, d, d), SubSeq(its, d + 2, d + 2)>>
        ELSE NoMatch

\* eps_line_re after "earnings per share", from item p:
\* [^\d]*?(?:[0-9]{4}[^\d]*?)?(number)[^\d]+(number); the year group is tried first
EpsTail(its, p) ==
    LET d1 == FirstDigit(its, p)
        d2 == IF d1 = 0 THEN 0 ELSE FirstDigit(its, d1 + 1)
    IN  IF d1 = 0 THEN NoMatch
        ELSE IF its[d1].len >= 4 /\ d2 # 0 /\ TwoNumbersAt(its, d2) # NoMatch
             THEN TwoNumbersAt(its, d2)
        ELSE TwoNumbersAt(its, d1)

\* eps_line_re_alt after "earnings per share": [:\s]*\n?[^\d]*?(number)\s+(number)
EpsAltTail(its, p) ==
    LET d1 == FirstDigit(its, p)
        e1 == NumberEnd(its, d1)
        d2 == WsThenDigit(its, e1, FALSE)
    IN  IF d1 = 0 \/ d2 = 0 THEN NoMatch
        ELSE <<SubSeq(its, d1, e1 - 1), SubSeq(its, d2, NumberEnd(its, d2) - 1)>>

\* (?:[,.\s][0-9]{3}) can follow the digit run p with a whole run of three digits
CanExtend(its, p) ==
    /\ p + 2 <= Len(its)
    /\ its[p + 1].k \in {"comma", "dot", "sp", "nl"}
    /\ its[p + 2].k = "d"
    /\ its[p + 2].len = 3

RECURSIVE LastExtension(_, _)
LastExtension(its, p) == IF CanExtend(its, p) THEN LastExtension(its, p + 2) ELSE p

\* the first three digits of a run
First3(it) == IF it.len <= 3 THEN it ELSE D(it.val \div Pow10(it.len - 3), 3)

\* group 2 of profit_line_re at the digit run d, greedy, nothing required after it:
\* up to three digits, whole groups of three, then three digits of a longer run
ProfitLast(its, d) ==
    IF its[d].len > 3 THEN <<First3(its[d])>>
    ELSE LET e == LastExtension(its, d)
         IN  IF /\ e + 2 <= Len(its)
                /\ its[e + 1].k \in {"comma", "dot", "sp", "nl"}
                /\ its[e + 2].k = "d"
                /\ its[e + 2].len > 3
             THEN SubSeq(its, d, e + 1) \o <<First3(its[e + 2])>>
             ELSE SubSeq(its, d, e)

\* group 1 from run d to run e, then \s+ and group 2; shorter group 1 on failure
RECURSIVE ProfitTry(_, _, _)
ProfitTry(its, d, e) ==
    LET d2 == WsThenDigit(its, e + 1, FALSE)
    IN  IF d2 # 0 THEN <<SubSeq(its, d, e), ProfitLast(its, d2)>>
        ELSE IF e > d THEN ProfitTry(its, d, e - 2)
        ELSE NoMatch

\* profit_line_re after its phrase, from item p: group 1 starts at the first digit
ProfitTail(its, p) ==
    LET d1 == FirstDigit(its, p)
    IN  IF d1 = 0 \/ its[d1].len > 3 THEN NoMatch
        ELSE ProfitTry(its, d1, LastExtension(its, d1))

EpsPhrase == {<<"earnings", "per", "share">>}
ProfitPhrases == {<<"profit", "attributable", "to">>, <<"profit", "for", "the", "year">>,
                  <<"profit", "after", "tax">>}

\* what follows the phrase in each of the three patterns
TailMatch(pattern, its, p) ==
    CASE pattern = "eps_line_re" -> EpsTail(its, p)
      [] pattern = "eps_line_re_alt" -> EpsAltTail(its, p)
      [] pattern = "profit_line_re" -> ProfitTail(its, p)

\* pattern.search(text): the leftmost phrase whose tail matches decides the groups
\* (eps_line_re's optional "basic and diluted" prefix moves the start, not the groups)
RegexSearch(phrases, pattern, text) ==
    LET its == Items(text)
        hits == {p \in 1..Len(its) : \E w \in phrases :
                    WordsAt(its, p, w) # 0 /\ TailMatch(pattern, its, WordsAt(its, p, w)) # NoMatch}
    IN  IF hits = {} THEN NoMatch
        ELSE LET p == CHOOSE q \in hits : \A r \in hits : q <= r
                 w == CHOOSE v \in phrases :
                         WordsAt(its, p, v) # 0
                         /\ TailMatch(pattern, its, WordsAt(its, p, v)) # NoMatch
             IN  TailMatch(pattern, its, WordsAt(its, p, w))

eps_line_re(text) == RegexSearch(EpsPhrase, "eps_line_re", text)
eps_line_re_alt(text) == RegexSearch(EpsPhrase, "eps_line_re_alt", text)
profit_line_re(text) == RegexSearch(ProfitPhrases, "profit_line_re", text)

(***************************************************************************)
(* The documents of the boundary specification.                            *)
(***************************************************************************)
Blank == <<>>
Toc == <<"table", "of", "contents", "remuneration", "report">>
Title == <<"Remuneration", "Report">>
Body == <<"remuneration", "bonus">>
Break == <<"Consolidated", "Financial", "Statements">>

\* the page texts of the exhaustively explored documents, and all page texts
PageTexts == {Blank, Title, Body, Break}
AllPageTexts == PageTexts \cup {Toc}

ShortDocs == UNION {[1..n -> PageTexts] : n \in 0..MaxDocLen}

\* a long document: one filler text everywhere but on a title page and one more page
LongDoc(filler, s, q, text) ==
    [i \in 1..LongDocLen |-> IF i = s + 1 THEN Title ELSE IF i = q + 1 THEN text ELSE filler]

LongDocs ==
    {LongDoc(f, s, q, t) : f \in {Blank, Body}, s \in {0, 5},
                           q \in 0..(LongDocLen - 1), t \in AllPageTexts}

\* the spec's end-example: contents page, front matter, title page 5, body, break page 11
ExampleDoc ==
    <<Toc, Blank, Blank, Blank, Blank, Title, Body, Body, Body, Body, Body, Break>>

BoundaryDocs == ShortDocs \cup LongDocs \cup {ExampleDoc}

\* extract_financial_performance, lines 79-86: the empty best
InitialBest ==
    [eps_current |-> None, eps_prior |-> None,
     profit_current_k |-> None, profit_prior_k |-> None,
     source_pages |-> <<>>, sources |-> {}]

(***************************************************************************)
(* extract_rem_section_from_pdf as a state machine.                        *)
(***************************************************************************)
bvars == <<start_page, idx, last_rem_like_idx, gap_without_rem, end_page, stop>>
fvars == <<candidate_pages, ci, window_start, window_end, window_text, best, examined,
           full_searches, result>>
pvars == <<facts>>
rvars == <<runs, first_range, module_lists>>
qvars == <<jobs, ppc, rem, run_facts, files, trace, reads, error>>
vars == <<pages, pc, bvars, fvars, pvars, rvars, qvars>>

\* the variables of the other function, at rest
BoundaryIdle ==
    /\ start_page = None
    /\ idx = 0
    /\ last_rem_like_idx = 0
    /\ gap_without_rem = 0
    /\ end_page = None
    /\ stop = "none"

FinancialIdle ==
    /\ candidate_pages = <<>>
    /\ ci = 0
    /\ window_start = 0
    /\ window_end = 0
    /\ window_text = <<>>
    /\ best = InitialBest
    /\ examined = <<>>
    /\ full_searches = 0
    /\ result = None

\* no facts dict yet
PostprocessIdle == facts = <<>>

\* no boundary detection is counted; the module is imported
RunsIdle == runs = 0 /\ first_range = None /\ module_lists = ModuleLists

\* no run of the pipeline
PipelineIdle ==
    /\ jobs = <<>>
    /\ ppc = <<>>
    /\ rem = <<>>
    /\ run_facts = <<>>
    /\ files = <<>>
    /\ trace = <<>>
    /\ reads = <<>>
    /\ error = <<>>

Init ==
    /\ pages \in BoundaryDocs
    /\ pc = "choose"
    /\ BoundaryIdle
    /\ FinancialIdle
    /\ PostprocessIdle
    /\ runs = 1
    /\ first_range = None
    /\ module_lists = ModuleLists
    /\ PipelineIdle

\* lines 205-207 with no start page: ValueError
RaiseNotFound ==
    /\ pc = "choose"
    /\ choose_best_rem_start(pages) = None
    /\ pc' = "raised"
    /\ UNCHANGED <<pages, qvars, pvars, rvars, start_page, idx, last_rem_like_idx, gap_without_rem, end_page, stop, fvars>>

\* lines 205-209, 166-169: a start page is chosen and find_end_page is entered
ChooseStart ==
    /\ pc = "choose"
    /\ \E r \in {choose_best_rem_start(pages)} :
        /\ r # None
        /\ start_page' = r
        /\ idx' = Val(r)
        /\ last_rem_like_idx' = Val(r)
    /\ gap_without_rem' = 0
    /\ pc' = "scan"
    /\ UNCHANGED <<pages, qvars, pvars, rvars, end_page, stop, fvars>>

\* a slip: _score_page counts the report titles as signals too, and builds the
\* combined list by extending the module's own list in place
\* (signals = REM_REPORT_PATTERNS; signals += REM_KEYWORDS), so the title list
\* keeps the keywords after the call
ScanPageExtendsPatterns ==
    /\ pc = "scan"
    /\ idx <= LastIdx(pages, Val(start_page))
    /\ \E signals \in {module_lists.REM_REPORT_PATTERNS \o module_lists.REM_KEYWORDS} :
       \E sc \in {ScoreWith(pages[idx + 1], signals, module_lists.BREAK_KEYWORDS)} :
       LET s == Val(start_page)
           last == NextLastRemLike(sc[1], idx, last_rem_like_idx)
           gap == NextGap(sc[1], gap_without_rem)
       IN  /\ module_lists' = [module_lists EXCEPT !.REM_REPORT_PATTERNS = signals]
           /\ last_rem_like_idx' = last
           /\ gap_without_rem' = gap
           /\ IF BreakCondition(idx, s, gap, sc[2])
              THEN /\ end_page' = Some(Max(last, s))
                   /\ stop' = "break"
                   /\ pc' = "done"
                   /\ idx' = idx
              ELSE /\ idx' = idx + 1
                   /\ UNCHANGED <<end_page, stop, pc>>
    /\ UNCHANGED <<pages, qvars, pvars, runs, first_range, start_page, fvars>>

\* lines 171-189: one iteration of the scan, with the break return
ScanPage ==
    /\ pc = "scan"
    /\ idx <= LastIdx(pages, Val(start_page))
    /\ \E sc \in {score_page(pages[idx + 1])} :
       LET s == Val(start_page)
           last == NextLastRemLike(sc[1], idx, last_rem_like_idx)
           gap == NextGap(sc[1], gap_without_rem)
       IN  /\ last_rem_like_idx' = last
           /\ gap_without_rem' = gap
           /\ IF BreakCondition(idx, s, gap, sc[2])
              THEN /\ end_page' = Some(Max(last, s))
                   /\ stop' = "break"
                   /\ pc' = "done"
                   /\ idx' = idx
              ELSE /\ idx' = idx + 1
                   /\ UNCHANGED <<end_page, stop, pc>>
    /\ UNCHANGED <<pages, qvars, pvars, rvars, start_page, fvars>>

\* a slip: the loop variable is returned instead of the last signal page
ReturnFallbackLoopVar ==
    /\ pc = "scan"
    /\ idx > LastIdx(pages, Val(start_page))
    /\ end_page' = Some(idx)
    /\ stop' = "fallback"
    /\ pc' = "done"
    /\ UNCHANGED <<pages, qvars, pvars, rvars, start_page, idx, last_rem_like_idx, gap_without_rem, fvars>>

\* a slip: the scan bound is returned instead of the last signal page
ReturnFallbackBound ==
    /\ pc = "scan"
    /\ idx > LastIdx(pages, Val(start_page))
    /\ end_page' = Some(LastIdx(pages, Val(start_page)))
    /\ stop' = "fallback"
    /\ pc' = "done"
    /\ UNCHANGED <<pages, qvars, pvars, rvars, start_page, idx, last_rem_like_idx, gap_without_rem, fvars>>

\* lines 191-192: the range is exhausted
ReturnFallback ==
    /\ pc = "scan"
    /\ idx > LastIdx(pages, Val(start_page))
    /\ end_page' = Some(Max(last_rem_like_idx, Val(start_page)))
    /\ stop' = "fallback"
    /\ pc' = "done"
    /\ UNCHANGED <<pages, qvars, pvars, rvars, start_page, idx, last_rem_like_idx, gap_without_rem, fvars>>

Next == RaiseNotFound \/ ChooseStart \/ ScanPage \/ ReturnFallback

Spec == Init /\ [][Next]_vars

(***************************************************************************)
(* Boundary detection called a second time by the same process with the    *)
(* same page list.  What outlives the first call is what the process       *)
(* holds: the page list of the caller and the module's lists.  The locals  *)
(* of the first call are gone; the second call makes its own.              *)
(***************************************************************************)
Rerun ==
    /\ pc \in {"done", "raised"}
    /\ runs = 1
    /\ first_range' = Some(<<pc, start_page, end_page>>)
    /\ runs' = 2
    /\ pc' = "choose"
    /\ start_page' = None
    /\ idx' = 0
    /\ last_rem_like_idx' = 0
    /\ gap_without_rem' = 0
    /\ end_page' = None
    /\ stop' = "none"
    /\ UNCHANGED <<pages, module_lists, qvars, fvars, pvars>>

NextTwice == RaiseNotFound \/ ChooseStart \/ ScanPage \/ ReturnFallback \/ Rerun

SpecTwice == Init /\ [][NextTwice]_vars

(***************************************************************************)
(* find_end_page called on its own, with any start page of the document    *)
(* (in the long documents: page 0 or page 5).                              *)
(***************************************************************************)
StartChoices(pgs) == IF Len(pgs) <= MaxDocLen THEN 0..(Len(pgs) - 1) ELSE {0, 5}

EndInit ==
    /\ pages \in BoundaryDocs
    /\ pc = "end_call"
    /\ BoundaryIdle
    /\ FinancialIdle
    /\ PostprocessIdle
    /\ RunsIdle
    /\ PipelineIdle

\* lines 146-169: find_end_page is entered with start_idx
EnterFindEndPage ==
    /\ pc = "end_call"
    /\ \E s \in StartChoices(pages) :
        /\ start_page' = Some(s)
        /\ idx' = s
        /\ last_rem_like_idx' = s
    /\ gap_without_rem' = 0
    /\ pc' = "scan"
    /\ UNCHANGED <<pages, qvars, pvars, rvars, end_page, stop, fvars>>

NextEnd == EnterFindEndPage \/ ScanPage \/ ReturnFallback

SpecEnd == EndInit /\ [][NextEnd]_vars

(***************************************************************************)
(* extract_financial_performance.                                          *)
(***************************************************************************)
FINANCIAL_STATEMENT_PATTERNS == <<
    {<<"consolidated", "statement", "of", "income">>,
     <<"consolidated", "statement", "of", "comprehensive", "income">>},
    {<<"consolidated", "income", "statement">>},
    {<<"statement", "of", "comprehensive", "income">>},
    {<<"income", "statement">>},
    {<<"consolidated", "statement", "of", "financial", "position">>},
    {<<"consolidated", "statement", "of", "profit", "or", "loss">>},
    {<<"financial", "statements">>} >>

EPS_PAGE_PATTERNS == <<
    {<<"basic", "and", "diluted", "earnings", "per", "share">>},
    {<<"eps">>},
    {<<"earnings", "per", "share">>} >>

\* the window of lines 111-112: pages before and after the candidate
window_before == 10
window_after == 20

find_page_indices(pgs, patterns) ==
    {i \in 0..(Len(pgs) - 1) :
        \E p \in 1..Len(patterns) : Search(patterns[p], LowerText(pgs[i + 1]))}

\* sorted(set(...)): the indices in ascending order
RECURSIVE Sorted(_)
Sorted(S) ==
    IF S = {} THEN <<>>
    ELSE LET lo == CHOOSE x \in S : \A y \in S : x <= y
         IN  <<lo>> \o Sorted(S \ {lo})

CandidatePages(pgs) ==
    Sorted(find_page_indices(pgs, FINANCIAL_STATEMENT_PATTERNS)
           \cup find_page_indices(pgs, EPS_PAGE_PATTERNS))

WindowStart(i) == Max(0, i - window_before)
WindowEnd(pgs, i) == Min(Len(pgs), i + window_after)

\* window_text = "\n".join(pages[window_start:window_end])
WindowText(pgs, i) == JoinLines(pgs, WindowStart(i), WindowEnd(pgs, i))

\* lines 115-118 and 148-151: the EPS match (primary pattern, then the alternative)
\* and the profit match of a text
EpsMatch(text) ==
    IF eps_line_re(text) # NoMatch THEN eps_line_re(text) ELSE eps_line_re_alt(text)

\* text.lower().find(phrase) where the phrase is in the text: the token it starts at
SnippetAt(text, phrase) ==
    LET low == LowerText(text)
        at == {i \in 1..Len(low) : OccursAt(low, phrase, i)}
    IN  IF at = {} THEN None ELSE Some(CHOOSE i \in at : \A j \in at : i <= j)

\* lines 138-142 and 168-172: the snippets, each given by where it starts
Sources(text) ==
    {<<"eps_source_snippet", SnippetAt(text, <<"earnings", "per", "share">>)>>,
     <<"profit_source_snippet", SnippetAt(text, <<"profit">>)>>}

\* a slip: a profit token that does not parse drops the whole profit pair
ExtractionDropsPair(text, hint) ==
    LET eps_m == EpsMatch(text)
        prof_m == profit_line_re(text)
        parsed == prof_m # NoMatch /\ parse_number(Some(prof_m[1])) # None
                                   /\ parse_number(Some(prof_m[2])) # None
    IN  IF eps_m = NoMatch THEN None
        ELSE Some([eps_current |-> parse_number(Some(eps_m[1])),
                   eps_prior |-> parse_number(Some(eps_m[2])),
                   profit_current_k |-> IF parsed THEN parse_number(Some(prof_m[1])) ELSE None,
                   profit_prior_k |-> IF parsed THEN parse_number(Some(prof_m[2])) ELSE None,
                   source_pages |-> hint,
                   sources |-> Sources(text)])

\* a slip: a profit match is recorded also when the text has no EPS match
ExtractionKeepsProfit(text, hint) ==
    LET eps_m == EpsMatch(text)
        prof_m == profit_line_re(text)
    IN  IF eps_m = NoMatch /\ prof_m = NoMatch THEN None
        ELSE Some([eps_current |-> IF eps_m # NoMatch THEN parse_number(Some(eps_m[1])) ELSE None,
                   eps_prior |-> IF eps_m # NoMatch THEN parse_number(Some(eps_m[2])) ELSE None,
                   profit_current_k |-> IF prof_m # NoMatch THEN parse_number(Some(prof_m[1])) ELSE None,
                   profit_prior_k |-> IF prof_m # NoMatch THEN parse_number(Some(prof_m[2])) ELSE None,
                   source_pages |-> hint,
                   sources |-> Sources(text)])

\* lines 121-136 and 153-166: the values taken from a text with an EPS match;
\* None when the text has no EPS match
Extraction(text, hint) ==
    LET eps_m == EpsMatch(text)
        prof_m == profit_line_re(text)
    IN  IF eps_m = NoMatch THEN None
        ELSE Some([eps_current |-> parse_number(Some(eps_m[1])),
                   eps_prior |-> parse_number(Some(eps_m[2])),
                   profit_current_k |-> IF prof_m # NoMatch THEN parse_number(Some(prof_m[1])) ELSE None,
                   profit_prior_k |-> IF prof_m # NoMatch THEN parse_number(Some(prof_m[2])) ELSE None,
                   source_pages |-> hint,
                   sources |-> Sources(text)])

\* a slip: a prior of 0 gives the change 0 instead of no change
ChangePctZeroPrior(current, prior) ==
    IF current = None \/ prior = None THEN None
    ELSE IF Val(prior).m = 0 THEN Some([num |-> 0, den |-> 1, terms |-> <<>>])
    ELSE LET sc == Max(Val(current).e, Val(prior).e)
             c == Val(current).m * (IF sc = Val(current).e THEN 1 ELSE Pow10(sc - Val(current).e))
             q == Val(prior).m * (IF sc = Val(prior).e THEN 1 ELSE Pow10(sc - Val(prior).e))
         IN  Some([num |-> (c - q) * 100, den |-> q, terms |-> <<Val(current), Val(prior)>>])

\* lines 174-181: (current - prior) / prior * 100 as the fraction num / den, with
\* the two numbers it was computed from; None unless current is present and prior is
\* present and not 0
ChangePct(current, prior) ==
    IF current = None \/ prior = None THEN None
    ELSE IF Val(prior).m = 0 THEN None
    ELSE LET sc == Max(Val(current).e, Val(prior).e)
             c == Val(current).m * (IF sc = Val(current).e THEN 1 ELSE Pow10(sc - Val(current).e))
             q == Val(prior).m * (IF sc = Val(prior).e THEN 1 ELSE Pow10(sc - Val(prior).e))
         IN  Some([num |-> (c - q) * 100, den |-> q, terms |-> <<Val(current), Val(prior)>>])

(***************************************************************************)
(* The documents of the financial specification.                           *)
(***************************************************************************)
MaxFinDocLen == 3    \* every document of up to this many pages is explored
LongFinDocLen == 32  \* length of the long documents with two pages of content

FHeader == <<"income", "statement">>
FLabel == <<"Earnings", "per", "share">>
FEps == <<"earnings", "per", "share", "0.45", "0.39">>
FEpsB == <<"earnings", "per", "share", "0.52", "0.48">>
FYears == <<"Basic", "and", "diluted", "earnings", "per", "share", "...",
            "2024", "2023", NL, "0.45", "0.39">>
FNums == <<"0.45", "0.39">>
FProfit == <<"Profit", "attributable", "to", "1,234", "1,100">>
FEpsWord == <<"eps">>
FEpsZero == <<"earnings", "per", "share", "0.45", "0.00">>
FProfitZero == <<"Profit", "attributable", "to", "1,234", "0.00">>
FProfitBad == <<"Profit", "for", "the", "year", "1.234.567", "1,100">>

FinContent == {FHeader, FLabel, FEps, FEpsB, FYears, FNums, FProfit, FEpsWord}
\* the page texts of the exhaustively explored documents
FinPageTexts == {Blank, FHeader, FEps, FYears, FProfit}

ShortFinDocs == UNION {[1..n -> FinPageTexts] : n \in 0..MaxFinDocLen}

LongFinDoc(a, ta, q, tq) ==
    [i \in 1..LongFinDocLen |-> IF i = a + 1 THEN ta ELSE IF i = q + 1 THEN tq ELSE Blank]

LongFinDocs ==
    {LongFinDoc(a, ta, q, tq) : a \in {0, 11}, ta \in FinContent,
                                q \in 0..(LongFinDocLen - 1), tq \in FinContent}

\* two-page documents over the pages that carry values: every pairing of an EPS
\* line with a profit line, a prior value of 0 and a profit token float() rejects
FinValueTexts == {FEps, FEpsZero, FProfit, FProfitZero, FProfitBad}
ValueFinDocs == [1..2 -> FinValueTexts]

FinDocs == ShortFinDocs \cup LongFinDocs \cup ValueFinDocs

(***************************************************************************)
(* extract_financial_performance as a state machine.                       *)
(***************************************************************************)
FinInit ==
    /\ pages \in FinDocs
    /\ pc = "fin_start"
    /\ BoundaryIdle
    /\ FinancialIdle
    /\ PostprocessIdle
    /\ RunsIdle
    /\ PipelineIdle

\* lines 49-86: the candidate pages and the empty best
FindCandidates ==
    /\ pc = "fin_start"
    /\ candidate_pages' = CandidatePages(pages)
    /\ best' = InitialBest
    /\ ci' = 1
    /\ pc' = "fin_loop"
    /\ UNCHANGED <<pages, qvars, pvars, rvars, bvars, window_start, window_end, window_text, examined,
                   full_searches, result>>

\* a slip: no break, a later window with an EPS match replaces an earlier one
ScanWindowNoBreak ==
    /\ pc = "fin_loop"
    /\ ci <= Len(candidate_pages)
    /\ LET i == candidate_pages[ci]
       IN  /\ window_start' = WindowStart(i)
           /\ window_end' = WindowEnd(pages, i)
           /\ window_text' = WindowText(pages, i)
           /\ examined' = Append(examined, i)
           /\ \E x \in {Extraction(WindowText(pages, i),
                                   <<WindowStart(i) + 1, i + 1, WindowEnd(pages, i)>>)} :
                best' = IF x # None THEN Val(x) ELSE best
           /\ ci' = ci + 1
           /\ pc' = pc
    /\ UNCHANGED <<pages, qvars, pvars, rvars, bvars, candidate_pages, full_searches, result>>

\* lines 108-143: one candidate's window is built and searched; an EPS match
\* fills best and leaves the loop
ScanWindow ==
    /\ pc = "fin_loop"
    /\ ci <= Len(candidate_pages)
    /\ LET i == candidate_pages[ci]
       IN  /\ window_start' = WindowStart(i)
           /\ window_end' = WindowEnd(pages, i)
           /\ window_text' = WindowText(pages, i)
           /\ examined' = Append(examined, i)
           /\ \E x \in {Extraction(WindowText(pages, i),
                                   <<WindowStart(i) + 1, i + 1, WindowEnd(pages, i)>>)} :
                IF x # None
                THEN /\ best' = Val(x)
                     /\ pc' = "fin_after"
                     /\ ci' = ci
                ELSE /\ ci' = ci + 1
                     /\ UNCHANGED <<best, pc>>
    /\ UNCHANGED <<pages, qvars, pvars, rvars, bvars, candidate_pages, full_searches, result>>

\* line 108: no candidate is left
LoopEnd ==
    /\ pc = "fin_loop"
    /\ ci > Len(candidate_pages)
    /\ pc' = "fin_after"
    /\ UNCHANGED <<pages, qvars, pvars, rvars, bvars, fvars>>

\* a slip: the whole document is searched whatever the windows gave
FullSearchAlways ==
    /\ pc = "fin_after"
    /\ full_searches' = full_searches + 1
    /\ \E x \in {Extraction(JoinLines(pages, 0, Len(pages)), <<"full_pdf_search">>)} :
         best' = IF x # None THEN Val(x) ELSE best
    /\ pc' = "fin_compute"
    /\ UNCHANGED <<pages, qvars, pvars, rvars, bvars, candidate_pages, ci, window_start, window_end, window_text,
                   examined, result>>

\* lines 146-172: no window gave an EPS value, the whole document is searched
FullSearch ==
    /\ pc = "fin_after"
    /\ best.eps_current = None
    /\ full_searches' = full_searches + 1
    /\ \E x \in {Extraction(JoinLines(pages, 0, Len(pages)), <<"full_pdf_search">>)} :
         best' = IF x # None THEN Val(x) ELSE best
    /\ pc' = "fin_compute"
    /\ UNCHANGED <<pages, qvars, pvars, rvars, bvars, candidate_pages, ci, window_start, window_end, window_text,
                   examined, result>>

\* line 146: best already holds an EPS value
SkipFullSearch ==
    /\ pc = "fin_after"
    /\ best.eps_current # None
    /\ pc' = "fin_compute"
    /\ UNCHANGED <<pages, qvars, pvars, rvars, bvars, fvars>>

\* lines 174-192: the changes and the returned dict
ComputeChanges ==
    /\ pc = "fin_compute"
    /\ result' = Some([eps_current |-> best.eps_current,
                       eps_prior |-> best.eps_prior,
                       eps_change_pct |-> ChangePct(best.eps_current, best.eps_prior),
                       profit_attributable_current_k |-> best.profit_current_k,
                       profit_attributable_prior_k |-> best.profit_prior_k,
                       profit_attributable_change_pct |->
                           ChangePct(best.profit_current_k, best.profit_prior_k),
                       financial_source_pages_hint |-> best.source_pages,
                       financial_sources |-> best.sources])
    /\ pc' = "fin_done"
    /\ UNCHANGED <<pages, qvars, pvars, rvars, bvars, candidate_pages, ci, window_start, window_end, window_text,
                   best, examined, full_searches>>

FinNext ==
    FindCandidates \/ ScanWindow \/ LoopEnd \/ FullSearch \/ SkipFullSearch \/ ComputeChanges

SpecFin == FinInit /\ [][FinNext]_vars

(***************************************************************************)
(* postprocess_facts.py.                                                   *)
(*                                                                         *)
(* Values of a facts dict.  A scalar is one of                             *)
(*   VNum(n)   the number n                                                *)
(*   VStr(n)   the string of the digits of n, which int() and float() take *)
(*   VText     the string "n/a", which int() and float() reject            *)
(*   VNone     None, also what dict.get returns for a missing key          *)
(* An entry of a list is a dict or NotAMapping (the string "n/a" where a   *)
(* dict is expected).  A list-valued field is a list, null (None) or       *)
(* missing from the dict.  A derived field is None or Some(value); for a   *)
(* derived field a missing key and None are the same to facts.get().       *)
(* A percentage is the fraction [num, den]; terms holds the two numbers a  *)
(* computed percentage was computed from, and is empty for a supplied one. *)
(***************************************************************************)
VNum(n) == [t |-> "num", v |-> n]
VStr(n) == [t |-> "numstr", v |-> n]
VText == [t |-> "text", v |-> 0]
VNone == [t |-> "none", v |-> 0]

NotAMapping == [t |-> "other"]
Row(year, amount) == [t |-> "dict", year |-> year, amount |-> amount]
Metric(category, weight_pct) == [t |-> "dict", category |-> category, weight_pct |-> weight_pct]

ListOf(seq) == [t |-> "list", v |-> seq]
Null == [t |-> "null", v |-> <<>>]
Missing == [t |-> "missing", v |-> <<>>]

\* the outcome of a call: a returned value or a raised exception
Return(v) == [raised |-> FALSE, v |-> v, exc |-> ""]
Raise(exc) == [raised |-> TRUE, v |-> None, exc |-> exc]

\* int(x) and float(x): numbers and digit strings convert, other strings raise
\* ValueError, None raises TypeError
to_number(x) ==
    CASE x.t = "num" -> Return(x.v)
      [] x.t = "numstr" -> Return(x.v)
      [] x.t = "text" -> Raise("ValueError")
      [] x.t = "none" -> Raise("TypeError")

\* facts.get(key, []): a missing key gives the empty list
get_list(field) == IF field.t = "missing" THEN ListOf(<<>>) ELSE field

\* isinstance(x, list)
is_list(field) == field.t = "list"

\* lines 21-27, one row: row.get on something that is no dict raises
\* AttributeError, which the except clause does not catch; a row whose year or
\* amount does not convert is skipped
CleanRow(row) ==
    IF row.t # "dict" THEN Raise("AttributeError")
    ELSE IF to_number(row.year).raised \/ to_number(row.amount).raised THEN Return(<<>>)
    ELSE Return(<<[year |-> to_number(row.year).v, amount |-> to_number(row.amount).v]>>)

\* lines 20-27: the loop stops at the first row that raises
RECURSIVE Clean(_)
Clean(rows) ==
    IF rows = <<>> THEN Return(<<>>)
    ELSE LET h == CleanRow(Head(rows))
             t == Clean(Tail(rows))
         IN  IF h.raised THEN h
             ELSE IF t.raised THEN t
             ELSE Return(h.v \o t.v)

\* clean.sort(key=year): stable, ascending
RECURSIVE InsertByYear(_, _)
InsertByYear(sorted, r) ==
    IF sorted = <<>> THEN <<r>>
    ELSE IF sorted[Len(sorted)].year <= r.year THEN Append(sorted, r)
    ELSE Append(InsertByYear(SubSeq(sorted, 1, Len(sorted) - 1), r), sorted[Len(sorted)])

RECURSIVE SortByYear(_)
SortByYear(rows) ==
    IF rows = <<>> THEN <<>>
    ELSE InsertByYear(SortByYear(SubSeq(rows, 1, Len(rows) - 1)), rows[Len(rows)])

\* (new - old) / old * 100.0 of the amounts new and old, which float() gave
Pct(new, old) ==
    [num |-> (new - old) * 100, den |-> old,
     terms |-> <<[m |-> new, e |-> 0], [m |-> old, e |-> 0]>>]

\* a percentage the dict came with: the number num / den as it stands
Literal(num, den) == [num |-> num, den |-> den, terms |-> <<>>]

\* a slip: the rows are not sorted, the last two rows of the list are compared
compute_salary_increase_pct_unsorted(salary_history) ==
    IF ~is_list(salary_history) \/ Len(salary_history.v) < 2 THEN Return(None)
    ELSE LET c == Clean(salary_history.v)
         IN  IF c.raised THEN c
             ELSE IF Len(c.v) < 2 THEN Return(None)
             ELSE LET latest == c.v[Len(c.v)]
                      previous == c.v[Len(c.v) - 1]
                  IN  IF previous.amount <= 0 THEN Return(None)
                      ELSE Return(Some(Pct(latest.amount, previous.amount)))

\* lines 6-42
compute_salary_increase_pct_from_history(salary_history) ==
    IF ~is_list(salary_history) \/ Len(salary_history.v) < 2 THEN Return(None)
    ELSE LET c == Clean(salary_history.v)
         IN  IF c.raised THEN c
             ELSE IF Len(c.v) < 2 THEN Return(None)
             ELSE LET sorted == SortByYear(c.v)
                      latest == sorted[Len(sorted)]
                      previous == sorted[Len(sorted) - 1]
                  IN  IF previous.amount <= 0 THEN Return(None)
                      ELSE Return(Some(Pct(latest.amount, previous.amount)))

\* lines 56-69, one metric: does it count, and with what weight
Counts(m) ==
    /\ m.t = "dict"
    /\ m.category = "esg"
    /\ m.weight_pct.t # "none"
    /\ ~to_number(m.weight_pct).raised

RECURSIVE TotalWeight(_)
TotalWeight(ms) ==
    IF ms = <<>> THEN 0
    ELSE (IF Counts(Head(ms)) THEN to_number(Head(ms).weight_pct).v ELSE 0) + TotalWeight(Tail(ms))

\* a slip: with no usable ESG metric the total is 0 instead of None
compute_total_esg_weight_zero(metrics) ==
    IF ~is_list(metrics) THEN None
    ELSE Some(TotalWeight(metrics.v))

\* lines 45-73
compute_total_esg_weight(metrics) ==
    IF ~is_list(metrics) THEN None
    ELSE IF SelectSeq(metrics.v, Counts) = <<>> THEN None
    ELSE Some(TotalWeight(metrics.v))

\* line 85
IsEsgMetric(m) == m.t = "dict" /\ m.category = "esg"

\* a slip: only the short-term list is looked at
has_any_esg_metric_sti_only(sti_metrics, ltip_metrics) ==
    is_list(sti_metrics) /\ \E i \in 1..Len(sti_metrics.v) : IsEsgMetric(sti_metrics.v[i])

\* lines 76-87
has_any_esg_metric(sti_metrics, ltip_metrics) ==
    \/ is_list(sti_metrics) /\ \E i \in 1..Len(sti_metrics.v) : IsEsgMetric(sti_metrics.v[i])
    \/ is_list(ltip_metrics) /\ \E i \in 1..Len(ltip_metrics.v) : IsEsgMetric(ltip_metrics.v[i])

COMPUTED_NOTE == "Computed from ceo_salary_history as latest vs previous year."

\* "not notes": None and the empty string
Falsy(notes) == notes = None \/ notes = Some("")

\* a slip: the increase is computed and stored whatever the field holds
SalaryRuleOverrides(f) ==
    LET increase == compute_salary_increase_pct_from_history(get_list(f.ceo_salary_history))
    IN  IF increase.raised THEN increase
        ELSE IF increase.v = None THEN Return(f)
        ELSE Return([f EXCEPT !.ceo_salary_increase_pct = increase.v,
                              !.ceo_salary_increase_pct_source =
                                  IF Falsy(@) THEN Some(COMPUTED_NOTE) ELSE @])

\* lines 101-112: the salary increase, with its source note
SalaryRule(f) ==
    IF f.ceo_salary_increase_pct # None THEN Return(f)
    ELSE LET increase == compute_salary_increase_pct_from_history(get_list(f.ceo_salary_history))
         IN  IF increase.raised THEN increase
             ELSE IF increase.v = None THEN Return(f)
             ELSE Return([f EXCEPT !.ceo_salary_increase_pct = increase.v,
                                   !.ceo_salary_increase_pct_source =
                                       IF Falsy(@) THEN Some(COMPUTED_NOTE) ELSE @])

\* a slip: the computed total is added to the total the field holds
StiRuleAccumulates(f) ==
    LET w == compute_total_esg_weight(get_list(f.sti_metrics))
    IN  IF w = None THEN f
        ELSE [f EXCEPT !.sti_total_esg_weight_pct = IF @ = None THEN w ELSE Some(Val(@) + Val(w))]

\* lines 115, 118-121
StiRule(f) ==
    IF f.sti_total_esg_weight_pct # None THEN f
    ELSE LET w == compute_total_esg_weight(get_list(f.sti_metrics))
         IN  IF w = None THEN f ELSE [f EXCEPT !.sti_total_esg_weight_pct = w]

\* lines 116, 123-126
LtipRule(f) ==
    IF f.ltip_total_esg_weight_pct # None THEN f
    ELSE LET w == compute_total_esg_weight(get_list(f.ltip_metrics))
         IN  IF w = None THEN f ELSE [f EXCEPT !.ltip_total_esg_weight_pct = w]

\* lines 115-116, 128-132
FlagRule(f) ==
    IF f.esg_metrics_incentives_present # None THEN f
    ELSE [f EXCEPT !.esg_metrics_incentives_present =
              Some(has_any_esg_metric(get_list(f.sti_metrics), get_list(f.ltip_metrics)))]

\* lines 90-134: the dict after the call, or the exception that leaves it
postprocess_facts(f) ==
    LET r == SalaryRule(f)
    IN  IF r.raised THEN r ELSE Return(FlagRule(LtipRule(StiRule(r.v))))

(***************************************************************************)
(* The facts dicts of the postprocessing specification.                    *)
(***************************************************************************)
MaxHistoryLen == 3   \* every salary history of up to this many rows is explored
MaxMetricsLen == 2   \* every short-term metric list of up to this many entries

SalaryRows ==
    {Row(VNum(2023), VNum(900000)), Row(VNum(2024), VNum(1000000)),
     Row(VNum(2022), VNum(0)), Row(VStr(2024), VStr(950000)),
     Row(VNone, VNum(900000)), Row(VText, VNum(1000000)), Row(VNum(2024), VText),
     NotAMapping}

MetricEntries ==
    {Metric("esg", VNum(10)), Metric("esg", VNum(5)), Metric("financial", VNum(85)),
     Metric("esg", VStr(20)), Metric("esg", VNone), Metric("esg", VText), NotAMapping}

Histories == {Null, Missing} \cup {ListOf(h) : h \in UNION {[1..n -> SalaryRows] : n \in 0..MaxHistoryLen}}

StiLists == {Null, Missing} \cup {ListOf(m) : m \in UNION {[1..n -> MetricEntries] : n \in 0..MaxMetricsLen}}

LtipLists ==
    {Null, Missing, ListOf(<<>>), ListOf(<<Metric("esg", VNum(5))>>),
     ListOf(<<Metric("financial", VNum(85))>>), ListOf(<<NotAMapping>>)}

\* the spec's end-example list
ExampleMetrics ==
    ListOf(<<Metric("esg", VNum(10)), Metric("esg", VNum(5)), Metric("financial", VNum(85))>>)

Facts(pct, source, history, sti, ltip, sti_total, ltip_total, flag) ==
    [source_pdf |-> "report.pdf",
     ceo_salary_increase_pct |-> pct,
     ceo_salary_increase_pct_source |-> source,
     ceo_salary_history |-> history,
     sti_metrics |-> sti,
     ltip_metrics |-> ltip,
     sti_total_esg_weight_pct |-> sti_total,
     ltip_total_esg_weight_pct |-> ltip_total,
     esg_metrics_incentives_present |-> flag]

\* every salary history, with and without a supplied increase and source note
SalaryFacts ==
    {Facts(pct, source, h, Missing, Missing, None, None, None) :
        pct \in {None, Some(Literal(7, 1))},
        source \in {None, Some(""), Some("page 12")},
        h \in Histories}

\* every pair of metric lists, with and without supplied totals and flag
MetricFacts ==
    {Facts(None, None, Missing, sti, ltip, st, lt, flag) :
        sti \in StiLists \cup {ExampleMetrics}, ltip \in LtipLists,
        st \in {None, Some(99)}, lt \in {None, Some(99)},
        flag \in {None, Some(TRUE), Some(FALSE)}}

FactRecords == SalaryFacts \cup MetricFacts

(***************************************************************************)
(* postprocess_facts as the pipeline runs it: twice in a row on the same   *)
(* dict (pipeline_extract_from_pdf.py, lines 29 and 32).                   *)
(***************************************************************************)
PostInit ==
    /\ facts \in FactRecords
    /\ pc = "post_first"
    /\ pages = <<>>
    /\ BoundaryIdle
    /\ FinancialIdle
    /\ RunsIdle
    /\ PipelineIdle

\* line 29: the first call returns
PostprocessFirst ==
    /\ pc = "post_first"
    /\ \E r \in {postprocess_facts(facts)} :
         /\ ~r.raised
         /\ facts' = r.v
    /\ pc' = "post_second"
    /\ UNCHANGED <<pages, qvars, bvars, fvars, rvars>>

\* line 32: the second call returns
PostprocessSecond ==
    /\ pc = "post_second"
    /\ \E r \in {postprocess_facts(facts)} :
         /\ ~r.raised
         /\ facts' = r.v
    /\ pc' = "post_done"
    /\ UNCHANGED <<pages, qvars, bvars, fvars, rvars>>

\* lines 29, 32: a call raises; the dict is as it was, nothing is saved
PostprocessRaises ==
    /\ pc \in {"post_first", "post_second"}
    /\ postprocess_facts(facts).raised
    /\ pc' = "post_raised"
    /\ UNCHANGED <<pages, qvars, bvars, fvars, pvars, rvars>>

PostNext == PostprocessFirst \/ PostprocessSecond \/ PostprocessRaises

SpecPost == PostInit /\ [][PostNext]_vars

(***************************************************************************)
(* The callees of the pipeline as functions of the document: what the      *)
(* state machines above compute step by step.                              *)
(***************************************************************************)
\* the value of an expression computed once: the element of a one-element set
The(S) == CHOOSE x \in S : TRUE

\* pdf_rem_extractor.py, lines 171-192: the scan from page i on
RECURSIVE ScanFrom(_, _, _, _, _)
ScanFrom(pgs, s, i, last, gap) ==
    IF i > LastIdx(pgs, s)
    THEN Max(last, s)
    ELSE The({IF BreakCondition(i, s, NextGap(sc[1], gap), sc[2])
              THEN Max(NextLastRemLike(sc[1], i, last), s)
              ELSE ScanFrom(pgs, s, i + 1, NextLastRemLike(sc[1], i, last), NextGap(sc[1], gap)) :
                sc \in {score_page(pgs[i + 1])}})

find_end_page(pgs, start_idx) == ScanFrom(pgs, start_idx, start_idx, start_idx, 0)

\* lines 209-212: the text and the range from start page s
RangeFrom(pgs, s) ==
    The({Return([rem_text |-> JoinPages(pgs, s, e + 1), start_idx |-> s, end_idx |-> e]) :
           e \in {find_end_page(pgs, s)}})

\* a slip: no error without a title page, the section starts at the first page
extract_rem_section_or_first_page(pgs) ==
    The({IF s = None THEN RangeFrom(pgs, 0) ELSE RangeFrom(pgs, Val(s)) :
           s \in {choose_best_rem_start(pgs)}})

\* lines 198-212: (rem_text, start_page, end_page), or ValueError without a start page
extract_rem_section_from_pdf(pgs) ==
    The({IF s = None THEN Raise("ValueError") ELSE RangeFrom(pgs, Val(s)) :
           s \in {choose_best_rem_start(pgs)}})

\* financial_extractor.py, lines 108-143: best after the loop over the candidates
RECURSIVE WindowedBest(_, _, _)
WindowedBest(pgs, cands, k) ==
    IF k > Len(cands)
    THEN InitialBest
    ELSE The({IF x # None THEN Val(x) ELSE WindowedBest(pgs, cands, k + 1) :
                x \in {Extraction(WindowText(pgs, cands[k]),
                                  <<WindowStart(cands[k]) + 1, cands[k] + 1,
                                    WindowEnd(pgs, cands[k])>>)}})

\* lines 146-172: best after the search of the whole document, made only when no
\* window gave an EPS value
FullSearchedBest(pgs, w) ==
    IF w.eps_current # None
    THEN w
    ELSE The({IF x # None THEN Val(x) ELSE w :
                x \in {Extraction(JoinLines(pgs, 0, Len(pgs)), <<"full_pdf_search">>)}})

\* lines 174-192: the changes and the returned dict
FinancialDict(b) ==
    [eps_current |-> b.eps_current,
     eps_prior |-> b.eps_prior,
     eps_change_pct |-> ChangePct(b.eps_current, b.eps_prior),
     profit_attributable_current_k |-> b.profit_current_k,
     profit_attributable_prior_k |-> b.profit_prior_k,
     profit_attributable_change_pct |-> ChangePct(b.profit_current_k, b.profit_prior_k),
     financial_source_pages_hint |-> b.source_pages,
     financial_sources |-> b.sources]

\* lines 37-192: the returned dict
extract_financial_performance(pgs) ==
    The({FinancialDict(b) :
           b \in {FullSearchedBest(pgs, w) : w \in {WindowedBest(pgs, CandidatePages(pgs), 1)}}})

(***************************************************************************)
(* predict_from_pdf.py and pipeline_extract_from_pdf.py: paths, files and  *)
(* the facts dict of a run.                                                *)
(*                                                                         *)
(* A path is a directory and a file name.  A key of the facts dict holds   *)
(* Missing (no such key), Null (JSON null) or Value(x).  json.dump         *)
(* followed by json.load gives back the dict it was given: the keys are    *)
(* strings and the values are numbers, strings, null, lists and dicts.     *)
(*                                                                         *)
(* A file is written through the file object of the run that opened it:    *)
(* open(path, "w") empties the file, json.dump and the close that follows  *)
(* put the text at offset 0 of that file object and cut nothing off.  A    *)
(* text shorter than what another run wrote since the open leaves the      *)
(* other run's tail behind it, and the file is no JSON.                    *)
(***************************************************************************)
Path(dir, name) == [dir |-> dir, name |-> name]
Value(x) == [t |-> "val", v |-> <<x>>]

\* predict_from_pdf.py, lines 13-14: facts.json next to the PDF
facts_path(pdf_path) == Path(pdf_path.dir, "facts.json")

\* a file: absent, emptied by an open for writing, holding the text of a facts dict,
\* or holding a text followed by the tail of a longer one; writer is the run that
\* opened or wrote it last, size its length in characters
NoFile == [state |-> "absent", writer |-> 0, content |-> None, size |-> 0]
Truncated(p) == [state |-> "truncated", writer |-> p, content |-> None, size |-> 0]
Written(p, f, n) == [state |-> "written", writer |-> p, content |-> Some(f), size |-> n]
Garbled(p, n) == [state |-> "garbled", writer |-> p, content |-> None, size |-> n]

\* json.dump(f, file) and the close: n characters at offset 0 of a file of file.size
AfterDump(file, p, f, n) == IF n >= file.size THEN Written(p, f, n) ELSE Garbled(p, file.size)

\* open(path, "r") and json.load(f): an empty file and a text with extra data raise
json_load(file) ==
    CASE file.state = "written" -> Return(Val(file.content))
      [] file.state \in {"truncated", "garbled"} -> Raise("JSONDecodeError")
      [] OTHER -> Raise("FileNotFoundError")

\* dict.setdefault: a key that is present, even with null, is kept
setdefault(current, x) == IF current.t = "missing" THEN Value(x) ELSE current

\* pipeline_extract_from_pdf.py, lines 20-22
add_metadata(f, pdf_path, r) ==
    [f EXCEPT !.source_pdf = setdefault(@, pdf_path),
              !.rem_pages_start = setdefault(@, r.start_idx + 1),
              !.rem_pages_end = setdefault(@, r.end_idx + 1)]

\* line 25
add_financial_performance(f, pgs) ==
    [f EXCEPT !.financial_performance = Value(extract_financial_performance(pgs))]

(***************************************************************************)
(* Python floats.  float(), -, / and * give the double nearest to the      *)
(* exact result, ties to the even mantissa; json.dump writes repr(x), the  *)
(* shortest decimal that float() reads back as x.  A double is             *)
(* [neg, m, x], the value m * 2^x with 2^52 <= m < 2^53, or m = 0; the     *)
(* numbers of the program stay far from the subnormal and the infinite     *)
(* range.  A mantissa does not fit a machine integer of the model: a       *)
(* natural number is the sequence of its base-1000 digits, the lowest      *)
(* first, <<>> for 0.                                                      *)
(***************************************************************************)
RECURSIVE BigOf(_)
BigOf(n) == IF n = 0 THEN <<>> ELSE <<n % 1000>> \o BigOf(n \div 1000)

RECURSIVE Trim(_)
Trim(a) == IF a # <<>> /\ a[Len(a)] = 0 THEN Trim(SubSeq(a, 1, Len(a) - 1)) ELSE a

Limb(a, i) == IF i >= 1 /\ i <= Len(a) THEN a[i] ELSE 0

\* -1, 0, 1 as a < b, a = b, a > b
RECURSIVE BigCmpFrom(_, _, _)
BigCmpFrom(a, b, i) ==
    IF i = 0 THEN 0
    ELSE IF a[i] < b[i] THEN -1
    ELSE IF a[i] > b[i] THEN 1
    ELSE BigCmpFrom(a, b, i - 1)

BigCmp(a, b) ==
    IF Len(a) < Len(b) THEN -1 ELSE IF Len(a) > Len(b) THEN 1 ELSE BigCmpFrom(a, b, Len(a))

RECURSIVE BigAddFrom(_, _, _, _)
BigAddFrom(a, b, i, carry) ==
    IF i > Len(a) /\ i > Len(b) THEN (IF carry = 0 THEN <<>> ELSE <<carry>>)
    ELSE <<(Limb(a, i) + Limb(b, i) + carry) % 1000>>
             \o BigAddFrom(a, b, i + 1, (Limb(a, i) + Limb(b, i) + carry) \div 1000)

BigAdd(a, b) == BigAddFrom(a, b, 1, 0)

\* a - b for a >= b
RECURSIVE BigSubFrom(_, _, _, _)
BigSubFrom(a, b, i, borrow) ==
    IF i > Len(a) THEN <<>>
    ELSE <<(a[i] - Limb(b, i) - borrow + 1000) % 1000>>
             \o BigSubFrom(a, b, i + 1, IF a[i] - Limb(b, i) - borrow < 0 THEN 1 ELSE 0)

BigSub(a, b) == Trim(BigSubFrom(a, b, 1, 0))

\* a * f for 0 <= f <= 2^20
RECURSIVE BigMulFrom(_, _, _, _)
BigMulFrom(a, f, i, carry) ==
    IF i > Len(a) THEN BigOf(carry)
    ELSE <<(a[i] * f + carry) % 1000>> \o BigMulFrom(a, f, i + 1, (a[i] * f + carry) \div 1000)

BigMulSmall(a, f) == IF f = 0 THEN <<>> ELSE BigMulFrom(a, f, 1, 0)

\* a * 2^k and a * 10^k
RECURSIVE BigShl(_, _)
BigShl(a, k) ==
    IF k = 0 THEN a
    ELSE IF k > 20 THEN BigShl(BigMulSmall(a, 2^20), k - 20)
    ELSE BigMulSmall(a, 2^k)

RECURSIVE BigTimes10(_, _)
BigTimes10(a, k) ==
    IF k = 0 THEN a
    ELSE IF k > 6 THEN BigTimes10(BigMulSmall(a, 10^6), k - 6)
    ELSE BigMulSmall(a, 10^k)

\* the limbs of a \div 2, the lowest first
RECURSIVE HalfDown(_, _, _)
HalfDown(a, i, r) ==
    IF i = 0 THEN <<>>
    ELSE Append(HalfDown(a, i - 1, (r * 1000 + a[i]) % 2), (r * 1000 + a[i]) \div 2)

BigHalf(a) == Trim(HalfDown(a, Len(a), 0))

\* the number of decimal digits of a > 0
RECURSIVE IntLen(_)
IntLen(n) == IF n < 10 THEN 1 ELSE 1 + IntLen(n \div 10)

Digits10(a) == 3 * (Len(a) - 1) + IntLen(a[Len(a)])

\* long division.  The digit of r \div d for r < 1000 * d: an estimate from the
\* leading limbs that is never too large, then raised while the rest allows
RECURSIVE Correct(_, _, _)
Correct(rest, d, q) ==
    IF BigCmp(rest, d) >= 0 THEN Correct(BigSub(rest, d), d, q + 1) ELSE <<q, rest>>

Estimate(r, d) ==
    (Limb(r, Len(d) + 1) * 1000000 + Limb(r, Len(d)) * 1000 + Limb(r, Len(d) - 1))
        \div (d[Len(d)] * 1000 + Limb(d, Len(d) - 1) + 1)

QuotientDigit(r, d) ==
    The({Correct(BigSub(r, BigMulSmall(d, q)), d, q) : q \in {Estimate(r, d)}})

\* the limbs of n from limb i down are still to be brought down: <<n \div d, n % d>>
RECURSIVE DivFrom(_, _, _, _, _)
DivFrom(n, d, i, r, q) ==
    IF i = 0 THEN <<Trim(q), r>>
    ELSE The({DivFrom(n, d, i - 1, qr[2], <<qr[1]>> \o q) :
                qr \in {QuotientDigit(Trim(<<n[i]>> \o r), d)}})

BigDivMod(n, d) == DivFrom(n, d, Len(n), <<>>, <<>>)

TwoTo52 == <<496, 370, 627, 599, 503, 4>>
TwoTo53 == <<992, 740, 254, 199, 7, 9>>

Zero(neg) == [neg |-> neg, m |-> <<>>, x |-> 0]

\* q * 2^x with the bits shifted out so far: rnd the last one, sticky whether any
\* before it was set; q is halved down to 53 bits
RECURSIVE HalveTo53(_, _, _, _)
HalveTo53(q, x, rnd, sticky) ==
    IF BigCmp(q, TwoTo53) < 0 THEN [m |-> q, x |-> x, rnd |-> rnd, sticky |-> sticky]
    ELSE HalveTo53(BigHalf(q), x + 1, q[1] % 2 = 1, sticky \/ rnd)

\* round to nearest, ties to even
RoundHalfEven(neg, h) ==
    IF h.rnd /\ (h.sticky \/ h.m[1] % 2 = 1)
    THEN The({IF up = TwoTo53 THEN [neg |-> neg, m |-> TwoTo52, x |-> h.x + 1]
                               ELSE [neg |-> neg, m |-> up, x |-> h.x] :
                up \in {BigAdd(h.m, <<1>>)}})
    ELSE [neg |-> neg, m |-> h.m, x |-> h.x]

\* the bits n is shifted up by before the division, for a quotient of 54 bits or more
PreShift(n, d) ==
    IF 17 - Digits10(n) + Digits10(d) <= 0 THEN 0
    ELSE (10 * (17 - Digits10(n) + Digits10(d)) + 2) \div 3

\* the double nearest to n / d * 2^x, for n > 0 and d > 0
RoundedFrom(neg, n, d, x, s) ==
    The({RoundHalfEven(neg, HalveTo53(qr[1], x - s, FALSE, qr[2] # <<>>)) :
           qr \in {BigDivMod(BigShl(n, s), d)}})

Rounded(neg, n, d, x) == RoundedFrom(neg, n, d, x, PreShift(n, d))

Abs(n) == IF n < 0 THEN 0 - n ELSE n

\* float(s) of the decimal m / 10^e, and float(n) of the int n
float_of(dec) ==
    IF dec.m = 0 THEN Zero(FALSE)
    ELSE Rounded(dec.m < 0, BigOf(Abs(dec.m)), BigTimes10(<<1>>, dec.e), 0)

\* the float of num / den, a number read from JSON
float_of_ratio(num, den) ==
    IF num = 0 THEN Zero(FALSE) ELSE Rounded(num < 0, BigOf(Abs(num)), BigOf(den), 0)

\* a - b
float_sub(a, b) ==
    IF b.m = <<>> THEN a
    ELSE IF a.m = <<>> THEN [b EXCEPT !.neg = ~@]
    ELSE The({IF a.neg # b.neg THEN Rounded(a.neg, BigAdd(am, bm), <<1>>, Min(a.x, b.x))
              ELSE IF BigCmp(am, bm) = 0 THEN Zero(FALSE)
              ELSE IF BigCmp(am, bm) > 0 THEN Rounded(a.neg, BigSub(am, bm), <<1>>, Min(a.x, b.x))
              ELSE Rounded(~a.neg, BigSub(bm, am), <<1>>, Min(a.x, b.x)) :
                am \in {BigShl(a.m, a.x - Min(a.x, b.x))},
                bm \in {BigShl(b.m, b.x - Min(a.x, b.x))}})

\* a / b for b # 0
float_div(a, b) ==
    IF a.m = <<>> THEN Zero(a.neg # b.neg) ELSE Rounded(a.neg # b.neg, a.m, b.m, a.x - b.x)

\* a * 100.0
float_times_100(a) ==
    IF a.m = <<>> THEN a ELSE Rounded(a.neg, BigMulSmall(a.m, 25), <<1>>, a.x + 2)

\* (new - old) / old * 100.0
change_pct_float(new, old) == float_times_100(float_div(float_sub(new, old), old))

(***************************************************************************)
(* repr(x).  The decimals that float() reads back as x are those between   *)
(* the midpoints to the neighbouring doubles, the midpoints included when  *)
(* the mantissa is even.  With all three as fractions over den: lo < x <   *)
(* hi in quarters of the last bit, the lower neighbour twice as near when  *)
(* m = 2^52.                                                               *)
(***************************************************************************)
Interval(a) ==
    [lo |-> BigShl(BigSub(BigMulSmall(a.m, 4), IF a.m = TwoTo52 THEN <<1>> ELSE <<2>>),
                   Max(a.x - 2, 0)),
     mid |-> BigShl(BigMulSmall(a.m, 4), Max(a.x - 2, 0)),
     hi |-> BigShl(BigAdd(BigMulSmall(a.m, 4), <<2>>), Max(a.x - 2, 0)),
     den |-> BigShl(<<1>>, Max(2 - a.x, 0)),
     closed |-> a.m[1] % 2 = 0]

\* the position of the decimal point: 10^(decpt - 1) <= x < 10^decpt
DecPt(iv) ==
    The({IF BigCmp(BigTimes10(iv.mid, Max(0 - k, 0)), BigTimes10(iv.den, Max(k, 0))) >= 0
         THEN k + 1 ELSE k :
           k \in {Digits10(iv.mid) - Digits10(iv.den)}})

\* is there a multiple of unit / den from lo / den to hi / den
HoldsMultiple(lo, hi, unit, closed) ==
    The({BigCmp(BigDivMod(h, unit)[2], BigSub(h, l)) <= 0 :
           l \in {IF closed THEN lo ELSE BigAdd(lo, <<1>>)},
           h \in {IF closed THEN hi ELSE BigSub(hi, <<1>>)}})

\* is there a decimal of n digits, the last one worth 10^(decpt - n), in the interval
HasDecimal(iv, decpt, n) ==
    HoldsMultiple(BigTimes10(iv.lo, Max(n - decpt, 0)), BigTimes10(iv.hi, Max(n - decpt, 0)),
                  BigTimes10(iv.den, Max(decpt - n, 0)), iv.closed)

\* the least number of digits from a to b that has one; 17 digits always do
RECURSIVE ShortestFrom(_, _, _, _)
ShortestFrom(iv, decpt, a, b) ==
    IF a = b THEN a
    ELSE IF HasDecimal(iv, decpt, (a + b) \div 2) THEN ShortestFrom(iv, decpt, a, (a + b) \div 2)
    ELSE ShortestFrom(iv, decpt, (a + b) \div 2 + 1, b)

\* the digits of repr and the position of their decimal point; a repr of one digit
\* may be the power of ten above x
DigitsIn(iv, decpt) ==
    The({IF n = 1 /\ HasDecimal(iv, decpt + 1, 1)
         THEN [n |-> 1, decpt |-> decpt + 1]
         ELSE [n |-> n, decpt |-> decpt] :
           n \in {ShortestFrom(iv, decpt, 1, 17)}})

ReprDigits(a) == The({DigitsIn(iv, DecPt(iv)) : iv \in {Interval(a)}})

\* the characters of the digits: 1234.0, 12.34, 0.001234, 1.234e+20, 1e-05
FormatLen(n, decpt) ==
    IF decpt > 16 \/ decpt < -3
    THEN (IF n = 1 THEN 1 ELSE n + 1) + 2 + Max(2, IntLen(Abs(decpt - 1)))
    ELSE IF decpt <= 0 THEN 2 - decpt + n
    ELSE IF decpt < n THEN n + 1
    ELSE decpt + 2

\* len(repr(x))
float_repr_len(a) ==
    (IF a.neg THEN 1 ELSE 0)
        + (IF a.m = <<>> THEN 3 ELSE The({FormatLen(r.n, r.decpt) : r \in {ReprDigits(a)}}))

(***************************************************************************)
(* json.dump(facts, f, indent=2): the number of characters written.        *)
(*                                                                         *)
(* Keys, strings, lists and dicts are counted as json lays them out with   *)
(* an indent of 2.  A key whose value is None in the model is a key the    *)
(* dict does not have, except in financial_performance, whose keys are     *)
(* always written.  An int takes its digits, a float its repr.             *)
(* Percentages and total weights are floats.                               *)
(***************************************************************************)
\* the float of a percentage
fraction_float(p) ==
    IF p.terms = <<>> THEN float_of_ratio(p.num, p.den)
    ELSE change_pct_float(float_of(p.terms[1]), float_of(p.terms[2]))

StringLen(str) == Len(str) + 2

\* "key": value
Entry(key, value_len) == Len(key) + 4 + value_len

\* a dict or a list whose entries, of the lengths lens, are indented by 2 * depth
Block(lens, depth) ==
    IF lens = <<>> THEN 2
    ELSE 2 + SumSeq(lens) + Len(lens) * 2 * depth + 2 * (Len(lens) - 1) + 1 + 2 * (depth - 1) + 1

\* a year, an amount or a weight: an int, a string of digits, another string, null
ScalarLen(x) ==
    CASE x.t = "num" -> IntLen(x.v)
      [] x.t = "numstr" -> IntLen(x.v) + 2
      [] x.t = "text" -> StringLen("n/a")
      [] OTHER -> 4

\* an entry of a list: a salary row, a metric, or a string in place of a mapping
ItemLen(x, depth) ==
    CASE x.t = "other" -> StringLen("n/a")
      [] "year" \in DOMAIN x ->
            Block(<<Entry("year", ScalarLen(x.year)), Entry("amount", ScalarLen(x.amount))>>, depth)
      [] OTHER ->
            Block(<<Entry("category", StringLen(x.category)),
                    Entry("weight_pct", ScalarLen(x.weight_pct))>>, depth)

\* a key holding a list, null, or no such key
ListEntry(key, field) ==
    CASE field.t = "missing" -> <<>>
      [] field.t = "null" -> <<Entry(key, 4)>>
      [] OTHER -> <<Entry(key, Block([i \in DOMAIN field.v |-> ItemLen(field.v[i], 3)], 2))>>

\* the characters of the first room characters of a text, a newline written as \n
RECURSIVE TextLen(_, _)
TextLen(text, room) ==
    IF text = <<>> \/ room <= 0 THEN 0
    ELSE IF Head(text) = NL THEN 2 + TextLen(Tail(text), room - 1)
    ELSE IF Len(Head(text)) >= room THEN room
    ELSE IF Tail(text) # <<>> /\ Head(Tail(text)) # NL
         THEN Len(Head(text)) + 1 + TextLen(Tail(text), room - Len(Head(text)) - 1)
         ELSE Len(Head(text)) + TextLen(Tail(text), room - Len(Head(text)))

\* financial_extractor.py, lines 138-142 and 168-172: text[find(phrase):][:500], or None
SnippetLen(text, start) ==
    IF start = None THEN 4 ELSE 2 + TextLen(SubSeq(text, Val(start), Len(text)), 500)

\* the text the snippets were cut from: the window the hint names, or the whole document
HintedText(pgs, hint) ==
    IF Len(hint) = 1 THEN JoinLines(pgs, 0, Len(pgs)) ELSE JoinLines(pgs, hint[1] - 1, hint[3])

\* a parsed number, a percentage and a total weight, or null
NumberLen(n) == IF n = None THEN 4 ELSE float_repr_len(float_of(Val(n)))
FractionLen(x) == IF x = None THEN 4 ELSE float_repr_len(fraction_float(Val(x)))
TotalLen(w) == IF w = None THEN 4 ELSE float_repr_len(float_of([m |-> Val(w), e |-> 0]))

\* the value of financial_performance
FinancialLen(fp, pgs) ==
    Block(<<Entry("eps_current", NumberLen(fp.eps_current)),
            Entry("eps_prior", NumberLen(fp.eps_prior)),
            Entry("eps_change_pct", FractionLen(fp.eps_change_pct)),
            Entry("profit_attributable_current_k", NumberLen(fp.profit_attributable_current_k)),
            Entry("profit_attributable_prior_k", NumberLen(fp.profit_attributable_prior_k)),
            Entry("profit_attributable_change_pct", FractionLen(fp.profit_attributable_change_pct)),
            Entry("financial_source_pages_hint",
                  IF Len(fp.financial_source_pages_hint) = 1
                  THEN Block(<<StringLen("full_pdf_search")>>, 3)
                  ELSE Block([i \in DOMAIN fp.financial_source_pages_hint |->
                                 IntLen(fp.financial_source_pages_hint[i])], 3)),
            Entry("financial_sources",
                  IF fp.financial_sources = {} THEN 2
                  ELSE Block(<<Entry("eps_source_snippet",
                                     SnippetLen(HintedText(pgs, fp.financial_source_pages_hint),
                                                SnippetAt(HintedText(pgs, fp.financial_source_pages_hint),
                                                          <<"earnings", "per", "share">>))),
                               Entry("profit_source_snippet",
                                     SnippetLen(HintedText(pgs, fp.financial_source_pages_hint),
                                                SnippetAt(HintedText(pgs, fp.financial_source_pages_hint),
                                                          <<"profit">>)))>>, 3))>>, 2)

\* a key of the metadata: absent, null or a value of the length given
MetaEntry(key, field, value_len) ==
    CASE field.t = "missing" -> <<>>
      [] field.t = "null" -> <<Entry(key, 4)>>
      [] OTHER -> <<Entry(key, value_len)>>

\* a key of the derived fields: absent when None
OptEntry(key, o, value_len) == IF o = None THEN <<>> ELSE <<Entry(key, value_len)>>

PathLen(path) == StringLen(path.dir) + 1 + Len(path.name)

\* pipeline_extract_from_pdf.py, line 36: the length of the text of the facts dict of a
\* run on the pages pgs
json_len(f, pgs) ==
    Block(OptEntry("ceo_salary_increase_pct", f.ceo_salary_increase_pct,
                   FractionLen(f.ceo_salary_increase_pct))
          \o OptEntry("ceo_salary_increase_pct_source", f.ceo_salary_increase_pct_source,
                      IF f.ceo_salary_increase_pct_source = None THEN 0
                      ELSE StringLen(Val(f.ceo_salary_increase_pct_source)))
          \o ListEntry("ceo_salary_history", f.ceo_salary_history)
          \o ListEntry("sti_metrics", f.sti_metrics)
          \o ListEntry("ltip_metrics", f.ltip_metrics)
          \o OptEntry("sti_total_esg_weight_pct", f.sti_total_esg_weight_pct,
                      TotalLen(f.sti_total_esg_weight_pct))
          \o OptEntry("ltip_total_esg_weight_pct", f.ltip_total_esg_weight_pct,
                      TotalLen(f.ltip_total_esg_weight_pct))
          \o OptEntry("esg_metrics_incentives_present", f.esg_metrics_incentives_present,
                      IF f.esg_metrics_incentives_present = Some(FALSE) THEN 5 ELSE 4)
          \o MetaEntry("source_pdf", f.source_pdf,
                       IF f.source_pdf.t = "val" THEN PathLen(f.source_pdf.v[1]) ELSE 0)
          \o MetaEntry("rem_pages_start", f.rem_pages_start,
                       IF f.rem_pages_start.t = "val" THEN IntLen(f.rem_pages_start.v[1]) ELSE 0)
          \o MetaEntry("rem_pages_end", f.rem_pages_end,
                       IF f.rem_pages_end.t = "val" THEN IntLen(f.rem_pages_end.v[1]) ELSE 0)
          \o MetaEntry("financial_performance", f.financial_performance,
                       IF f.financial_performance.t = "val"
                       THEN FinancialLen(f.financial_performance.v[1], pgs) ELSE 0),
          1)

(***************************************************************************)
(* The runs of the pipeline specification: two calls of main on two        *)
(* different documents.                                                    *)
(***************************************************************************)
RunIds == {1, 2}

PdfName(p) == IF p = 1 THEN "a.pdf" ELSE "b.pdf"
Dirs == {"reports", "archive"}
FactsFiles == {Path(d, "facts.json") : d \in Dirs}

\* a document with a title page and financial lines, and one without a title page
ReportDoc == <<Title, Body, FEps, FProfit>>
NoSectionDoc == <<Body, FEpsB, Break>>
PipelineDocs == {ExampleDoc, ReportDoc, NoSectionDoc}

\* the dict the fact-filling collaborator returns: the keys postprocess_facts reads,
\* and the metadata keys
Reply(f, source_pdf, rem_pages_start, rem_pages_end) ==
    [ceo_salary_increase_pct |-> f.ceo_salary_increase_pct,
     ceo_salary_increase_pct_source |-> f.ceo_salary_increase_pct_source,
     ceo_salary_history |-> f.ceo_salary_history,
     sti_metrics |-> f.sti_metrics,
     ltip_metrics |-> f.ltip_metrics,
     sti_total_esg_weight_pct |-> f.sti_total_esg_weight_pct,
     ltip_total_esg_weight_pct |-> f.ltip_total_esg_weight_pct,
     esg_metrics_incentives_present |-> f.esg_metrics_incentives_present,
     source_pdf |-> source_pdf,
     rem_pages_start |-> rem_pages_start,
     rem_pages_end |-> rem_pages_end,
     financial_performance |-> Missing]

RisingHistory == ListOf(<<Row(VNum(2023), VNum(900000)), Row(VNum(2024), VNum(1000000))>>)
BrokenHistory == ListOf(<<Row(VNum(2023), VNum(900000)), NotAMapping>>)

\* extract_facts.py, lines 49-74: a dict, or ValueError when the reply is no JSON
Replies ==
    {Return(Reply(Facts(None, None, RisingHistory, ExampleMetrics, Missing, None, None, None),
                  Missing, Missing, Missing)),
     Return(Reply(Facts(Some(Literal(7, 1)), Some("page 12"), Missing, Missing, Missing,
                        Some(99), None, Some(TRUE)),
                  Value(Path("llm", "report.pdf")), Value(1), Null)),
     Return(Reply(Facts(None, None, BrokenHistory, Missing, Missing, None, None, None),
                  Missing, Missing, Missing)),
     Raise("ValueError")}

Job(p, dir, doc, reply) == [pdf_path |-> Path(dir, PdfName(p)), doc |-> doc, reply |-> reply]

PipelineInit ==
    /\ jobs \in {j \in [RunIds -> {Job(p, d, doc, r) : p \in RunIds, d \in Dirs,
                                                     doc \in PipelineDocs, r \in Replies}] :
                    /\ \A p \in RunIds : j[p].pdf_path.name = PdfName(p)
                    /\ j[1].doc # j[2].doc}
    /\ ppc = [p \in RunIds |-> "start"]
    /\ rem = [p \in RunIds |-> None]
    /\ run_facts = [p \in RunIds |-> None]
    /\ files = [f \in FactsFiles |-> NoFile]
    /\ trace = [p \in RunIds |-> <<>>]
    /\ reads = [p \in RunIds |-> <<>>]
    /\ error = [p \in RunIds |-> None]
    /\ pages = <<>>
    /\ pc = "pipeline"
    /\ BoundaryIdle
    /\ FinancialIdle
    /\ PostprocessIdle
    /\ RunsIdle

\* a call returned or raised: the run goes on to next, or ends with the exception
Continue(p, r, next) ==
    IF r.raised
    THEN /\ ppc' = [ppc EXCEPT ![p] = "raised"]
         /\ error' = [error EXCEPT ![p] = Some(r.exc)]
    ELSE /\ ppc' = [ppc EXCEPT ![p] = next]
         /\ UNCHANGED error

\* pipeline_extract_from_pdf.py, line 12 (entered from predict_from_pdf.py, line 18)
DetectSection(p) ==
    /\ ppc[p] = "start"
    /\ \E r \in {extract_rem_section_from_pdf(jobs[p].doc)} :
         /\ Continue(p, r, "fill")
         /\ rem' = [rem EXCEPT ![p] = IF r.raised THEN None ELSE Some(r.v)]
    /\ trace' = [trace EXCEPT ![p] = Append(@, "extract_rem_section_from_pdf")]
    /\ UNCHANGED <<pages, pc, bvars, fvars, pvars, rvars, jobs, run_facts, files, reads>>

\* line 17: the fact-filling collaborator is called with rem_text
FillFacts(p) ==
    /\ ppc[p] = "fill"
    /\ \E r \in {jobs[p].reply} :
         /\ Continue(p, r, "metadata")
         /\ run_facts' = [run_facts EXCEPT ![p] = IF r.raised THEN None ELSE Some(r.v)]
    /\ trace' = [trace EXCEPT ![p] = Append(@, "extract_facts_from_report")]
    /\ UNCHANGED <<pages, pc, bvars, fvars, pvars, rvars, jobs, rem, files, reads>>

\* lines 20-22
AddMetadata(p) ==
    /\ ppc[p] = "metadata"
    /\ run_facts' = [run_facts EXCEPT ![p] = Some(add_metadata(Val(@), jobs[p].pdf_path, Val(rem[p])))]
    /\ ppc' = [ppc EXCEPT ![p] = "financial"]
    /\ trace' = [trace EXCEPT ![p] = Append(@, "setdefault")]
    /\ UNCHANGED <<pages, pc, bvars, fvars, pvars, rvars, jobs, rem, files, reads, error>>

\* line 25
AddFinancialPerformance(p) ==
    /\ ppc[p] = "financial"
    /\ run_facts' = [run_facts EXCEPT ![p] = Some(add_financial_performance(Val(@), jobs[p].doc))]
    /\ ppc' = [ppc EXCEPT ![p] = "post_first"]
    /\ trace' = [trace EXCEPT ![p] = Append(@, "extract_financial_performance")]
    /\ UNCHANGED <<pages, pc, bvars, fvars, pvars, rvars, jobs, rem, files, reads, error>>

\* lines 29 and 32: postprocess_facts, twice; an exception leaves the dict unsaved
Postprocess(p) ==
    /\ ppc[p] \in {"post_first", "post_second"}
    /\ \E r \in {postprocess_facts(Val(run_facts[p]))} :
         /\ Continue(p, r, IF ppc[p] = "post_first" THEN "post_second" ELSE "open")
         /\ run_facts' = [run_facts EXCEPT ![p] = IF r.raised THEN @ ELSE Some(r.v)]
    /\ trace' = [trace EXCEPT ![p] = Append(@, "postprocess_facts")]
    /\ UNCHANGED <<pages, pc, bvars, fvars, pvars, rvars, jobs, rem, files, reads>>

\* line 35: open(output_json_path, "w") creates or empties the file
OpenOutput(p) ==
    /\ ppc[p] = "open"
    /\ files' = [files EXCEPT ![facts_path(jobs[p].pdf_path)] = Truncated(p)]
    /\ ppc' = [ppc EXCEPT ![p] = "dump"]
    /\ UNCHANGED <<pages, pc, bvars, fvars, pvars, rvars, jobs, rem, run_facts, trace, reads, error>>

\* line 36: json.dump and the close of the file; the text goes to offset 0 of the
\* file as it is now
DumpFacts(p) ==
    /\ ppc[p] = "dump"
    /\ \E n \in {json_len(Val(run_facts[p]), jobs[p].doc)} :
         files' = [files EXCEPT ![facts_path(jobs[p].pdf_path)] =
                       AfterDump(@, p, Val(run_facts[p]), n)]
    /\ ppc' = [ppc EXCEPT ![p] = "peek"]
    /\ trace' = [trace EXCEPT ![p] = Append(@, "json.dump")]
    /\ UNCHANGED <<pages, pc, bvars, fvars, pvars, rvars, jobs, rem, run_facts, reads, error>>

\* predict_from_pdf.py, lines 21-24, and judge_investors.py, lines 167-168 (called
\* at line 28): the facts are loaded from facts_path, first for the printed summary,
\* then by judge_all_investors as the facts every investor is judged on
LoadFacts(p) ==
    /\ ppc[p] \in {"peek", "judge"}
    /\ \E file \in {files[facts_path(jobs[p].pdf_path)]} :
         /\ Continue(p, json_load(file), IF ppc[p] = "peek" THEN "judge" ELSE "done")
         /\ reads' = [reads EXCEPT ![p] = Append(@, file)]
    /\ UNCHANGED <<pages, pc, bvars, fvars, pvars, rvars, jobs, rem, run_facts, files, trace>>

PipelineNext ==
    \E p \in RunIds :
        \/ DetectSection(p)
        \/ FillFacts(p)
        \/ AddMetadata(p)
        \/ AddFinancialPerformance(p)
        \/ Postprocess(p)
        \/ OpenOutput(p)
        \/ DumpFacts(p)
        \/ LoadFacts(p)

SpecPipeline == PipelineInit /\ [][PipelineNext]_vars

(***************************************************************************)
(* What the claims speak of, stated from the document alone.               *)
(***************************************************************************)
LastPageIndex == Len(pages) - 1

\* the page carries the section title: every title pattern contains "remuneration report"
TitlePage(i) ==
    \E k \in 1..(Len(pages[i + 1]) - 1) :
        /\ Lower(pages[i + 1][k]) = "remuneration"
        /\ Lower(pages[i + 1][k + 1]) = "report"

TitlePages == {i \in 0..LastPageIndex : TitlePage(i)}

\* the candidates that are scored: those past the front matter, or all when there is none
ScoredPages ==
    IF \E c \in TitlePages : c >= 5 THEN {c \in TitlePages : c >= 5} ELSE TitlePages

\* occurrences of the section keyword, and words, on pages [c, c+5) clipped
KeywordCount(c) ==
    SumSeq([k \in 1..(Min(Len(pages), c + 5) - c) |->
               Cardinality({j \in 1..Len(pages[c + k]) : Lower(pages[c + k][j]) = "remuneration"})])

WordCount(c) ==
    SumSeq([k \in 1..(Min(Len(pages), c + 5) - c) |-> Len(pages[c + k])])

\* the order (keywordCount, wordCount, pageIndex), lexicographic
RankedBelow(c, d) ==
    \/ KeywordCount(c) < KeywordCount(d)
    \/ KeywordCount(c) = KeywordCount(d) /\ WordCount(c) < WordCount(d)
    \/ KeywordCount(c) = KeywordCount(d) /\ WordCount(c) = WordCount(d) /\ c < d

PageScores == [t \in AllPageTexts |-> ScoreWith(t, REM_KEYWORDS, BREAK_KEYWORDS)]
SignalScore(j) == PageScores[pages[j + 1]][1]
BreakScore(j) == PageScores[pages[j + 1]][2]

\* the number of consecutive zero-signal pages ending at page j, counted from page s
RECURSIVE GapCount(_, _)
GapCount(s, j) ==
    IF j < s \/ SignalScore(j) > 0 THEN 0 ELSE 1 + GapCount(s, j - 1)

\* both conditions of the stop hold on page j of a scan started at s (default parameters)
Triggers(s, j) ==
    /\ j >= s + 3
    /\ GapCount(s, j) >= 3
    /\ BreakScore(j) > 0

\* the last page of [s, hi] with signal, or s when there is none
RECURSIVE LastSignalPage(_, _)
LastSignalPage(s, hi) ==
    IF hi <= s THEN s ELSE IF SignalScore(hi) > 0 THEN hi ELSE LastSignalPage(s, hi - 1)

Returned == pc = "done"
StartIdx == Val(start_page)
EndIdx == Val(end_page)

(***************************************************************************)
(* C1.  Whenever a page matches a title pattern, the range produced by     *)
(* choose_best_rem_start and find_end_page (default parameters) satisfies  *)
(* 0 <= startPage <= endPage <= lastPageIndex; the scan itself never       *)
(* leaves [startPage, lastPageIndex + 1].                                  *)
(***************************************************************************)
C1_RangeWithinDocument ==
    /\ pc = "scan" => 0 <= StartIdx /\ StartIdx <= idx /\ idx <= LastPageIndex + 1
    /\ Returned => /\ 0 <= StartIdx
                   /\ StartIdx <= EndIdx
                   /\ EndIdx <= LastPageIndex

C1_Witness ==
    Returned /\ 0 < StartIdx /\ StartIdx < EndIdx /\ EndIdx < LastPageIndex

(***************************************************************************)
(* C2.  Boundary detection raises exactly when no page of the document     *)
(* matches a title pattern; with at least one such page (the others may    *)
(* all be empty) choose_best_rem_start returns a page and a range         *)
(* results.                                                                *)
(***************************************************************************)
C2_RaisesIffNoTitlePage ==
    /\ pc = "raised" => TitlePages = {} /\ start_page = None
    /\ pc \in {"scan", "done"} => TitlePages # {} /\ start_page # None
    /\ pc = "choose" => (choose_best_rem_start(pages) = None <=> TitlePages = {})
    /\ Returned => end_page # None

C2_Witness ==
    /\ Returned
    /\ Len(pages) >= 3
    /\ Cardinality(TitlePages) = 1
    /\ \A i \in 0..LastPageIndex : i \in TitlePages \/ pages[i + 1] = <<>>

(***************************************************************************)
(* C3.  The chosen start page is the greatest scored candidate in the      *)
(* lexicographic order (keywordCount, wordCount, pageIndex), the counts    *)
(* taken over pages [idx, idx+5) clipped; so of two candidates with equal  *)
(* counts the later page wins.                                             *)
(***************************************************************************)
C3_StartIsLexMax ==
    start_page # None =>
        /\ StartIdx \in ScoredPages
        /\ \A c \in ScoredPages \ {StartIdx} : RankedBelow(c, StartIdx)

C3_Witness ==
    /\ start_page # None
    /\ \E c \in ScoredPages :
        /\ c < StartIdx
        /\ KeywordCount(c) = KeywordCount(StartIdx)
        /\ WordCount(c) = WordCount(StartIdx)

(***************************************************************************)
(* C4.  The chosen start page is a candidate page, and it lies below page  *)
(* 5 only when no candidate lies at page 5 or later: candidates below 5    *)
(* lose to any later candidate whatever their score.                       *)
(***************************************************************************)
C4_FrontMatterSkipped ==
    start_page # None =>
        /\ StartIdx \in TitlePages
        /\ StartIdx < 5 => \A c \in TitlePages : c < 5

C4_Witness ==
    /\ start_page # None
    /\ StartIdx >= 5
    /\ \E c \in TitlePages : c < 5 /\ RankedBelow(StartIdx, c)

(***************************************************************************)
(* C5.  The scan stops at the first page j >= start + 3 on which the gap   *)
(* of zero-signal pages ending at j is at least 3 and the break score is   *)
(* positive, and returns the last signal page (or start), which lies       *)
(* before j; pages on which one condition fails are passed over, and a     *)
(* scan that runs out of pages met no such page.                           *)
(***************************************************************************)
C5_StopsAtFirstTrigger ==
    /\ Returned /\ stop = "break" =>
        /\ Triggers(StartIdx, idx)
        /\ \A j \in StartIdx..(idx - 1) : ~Triggers(StartIdx, j)
        /\ EndIdx = LastSignalPage(StartIdx, idx)
        /\ EndIdx < idx
    /\ Returned /\ stop = "fallback" =>
        \A j \in StartIdx..Min(LastPageIndex, StartIdx + 40) : ~Triggers(StartIdx, j)

C5_Witness ==
    /\ Returned
    /\ stop = "break"
    /\ \E j \in StartIdx..(idx - 1) : BreakScore(j) > 0
    /\ \E j \in (StartIdx + 3)..(idx - 1) : GapCount(StartIdx, j) >= 3

(***************************************************************************)
(* C6 as claimed.  A scan that reaches page start + maxPages without the   *)
(* break condition triggering returns start + maxPages.                    *)
(***************************************************************************)
C6_ReturnsBound ==
    Returned /\ stop = "fallback" /\ LastPageIndex >= StartIdx + 40 =>
        EndIdx = StartIdx + 40

(***************************************************************************)
(* C6 amended.  A scan that reaches page start + maxPages without the      *)
(* break condition triggering returns the last page of                     *)
(* [start, start + maxPages] with a positive signal score, or start when   *)
(* there is none; that is the bound only when the page at the bound        *)
(* carries signal.                                                         *)
(***************************************************************************)
C6_ReturnsLastSignalPage ==
    Returned /\ stop = "fallback" /\ LastPageIndex >= StartIdx + 40 =>
        /\ EndIdx = LastSignalPage(StartIdx, StartIdx + 40)
        /\ EndIdx = StartIdx + 40 <=> SignalScore(StartIdx + 40) > 0

C6_Witness ==
    /\ Returned
    /\ stop = "fallback"
    /\ LastPageIndex > StartIdx + 40
    /\ StartIdx < EndIdx
    /\ EndIdx < StartIdx + 40

(***************************************************************************)
(* C7.  On the 12-page example (contents page 0, title page 5, body pages  *)
(* 6-10, break marker on page 11) the start page is 5 and the end page 10. *)
(***************************************************************************)
C7_ExampleRange ==
    pages = ExampleDoc =>
        /\ start_page # None => StartIdx = 5
        /\ pc # "raised"
        /\ Returned => EndIdx = 10

C7_Witness ==
    pages = ExampleDoc /\ Returned /\ StartIdx = 5 /\ EndIdx = 10

(***************************************************************************)
(* What the financial claims speak of.                                     *)
(***************************************************************************)
FinReturned == pc = "fin_done"
FinLoopLeft == pc \in {"fin_after", "fin_compute", "fin_done"}

\* the number n / 10^e as parse_number gives it
Number(n, e) == Some([m |-> n, e |-> e])

\* the fraction x equals n / d
IsFraction(x, n, d) == x # None /\ Val(x).num * d = n * Val(x).den

\* the candidate page whose window was built last
LastExamined == examined[Len(examined)]

\* the pages max(0, idx - 10) .. min(lastPage, idx + 20), both ends included
InclusiveWindowText(pgs, i) ==
    JoinLines(pgs, Max(0, i - 10), Min(Len(pgs) - 1, i + 20) + 1)

\* the positions in candidate_pages whose window has an EPS match
MatchingCandidates ==
    {k \in 1..Len(candidate_pages) :
        EpsMatch(WindowText(pages, candidate_pages[k])) # NoMatch}

FirstMatching == CHOOSE k \in MatchingCandidates : \A j \in MatchingCandidates : k <= j

(***************************************************************************)
(* C8.  For the window text "Basic and diluted earnings per share ... 2024 *)
(* 2023 \n 0.45 0.39" the extraction gives eps_current = 0.45, eps_prior = *)
(* 0.39 and eps_change_pct = (0.45 - 0.39) / 0.39 * 100: the captured      *)
(* numbers are the two values, not a year header.                          *)
(***************************************************************************)
C8_ExampleEps ==
    pages = <<FYears>> /\ FinReturned =>
        /\ window_text = FYears
        /\ Val(result).eps_current = Number(45, 2)
        /\ Val(result).eps_prior = Number(39, 2)
        /\ IsFraction(Val(result).eps_change_pct, 600, 39)

(***************************************************************************)
(* C9.  The text scanned for a candidate page idx is the concatenation of  *)
(* exactly the pages max(0, idx - 10) through min(lastPage, idx + 20),     *)
(* both included: page idx + 20 is in the window whenever it exists.       *)
(***************************************************************************)
C9_WindowIsInclusive ==
    examined # <<>> => window_text = InclusiveWindowText(pages, LastExamined)

(***************************************************************************)
(* C10.  Candidate pages are visited in ascending page order, and the      *)
(* first candidate whose window has an EPS match determines the result:    *)
(* the scan stops there, no later candidate's window is built, the whole   *)
(* document is not searched, and the returned EPS and profit values are    *)
(* the ones of that window.                                                *)
(***************************************************************************)
C10_FirstMatchWins ==
    /\ \A j, k \in 1..Len(examined) : j < k => examined[j] < examined[k]
    /\ \A k \in 1..Len(examined) : examined[k] = candidate_pages[k]
    /\ FinLoopLeft /\ MatchingCandidates # {} =>
          \E w \in {WindowText(pages, candidate_pages[FirstMatching])} :
             /\ examined = SubSeq(candidate_pages, 1, FirstMatching)
             /\ window_text = w
             /\ full_searches = 0
             /\ best.eps_current = parse_number(Some(EpsMatch(w)[1]))
             /\ best.eps_prior = parse_number(Some(EpsMatch(w)[2]))
             /\ best.profit_current_k =
                    (IF profit_line_re(w) = NoMatch THEN None
                     ELSE parse_number(Some(profit_line_re(w)[1])))
             /\ best.profit_prior_k =
                    (IF profit_line_re(w) = NoMatch THEN None
                     ELSE parse_number(Some(profit_line_re(w)[2])))
             /\ FinReturned =>
                   /\ Val(result).eps_current = best.eps_current
                   /\ Val(result).eps_prior = best.eps_prior
                   /\ Val(result).profit_attributable_current_k = best.profit_current_k
                   /\ Val(result).profit_attributable_prior_k = best.profit_prior_k

\* the first match is returned while a later candidate, never visited, has a
\* window with other EPS values
C10_Witness ==
    /\ FinReturned
    /\ examined # <<>>
    /\ Val(result).eps_current # None
    /\ \E k \in (Len(examined) + 1)..Len(candidate_pages) :
          EpsMatch(WindowText(pages, candidate_pages[k])) \notin {NoMatch, EpsMatch(window_text)}

(***************************************************************************)
(* C11.  The whole document is searched if and only if no candidate's      *)
(* window had an EPS match (also when there is no candidate page), it is   *)
(* searched at most once, and values a window gave are never replaced.     *)
(***************************************************************************)
C11_FullSearchOnlyWithoutWindowMatch ==
    /\ full_searches <= 1
    /\ pc \in {"fin_start", "fin_loop", "fin_after"} => full_searches = 0
    /\ pc \in {"fin_compute", "fin_done"} =>
          /\ full_searches = 1 <=> MatchingCandidates = {}
          /\ MatchingCandidates # {} =>
                /\ best = Val(Extraction(window_text,
                                         <<window_start + 1, LastExamined + 1, window_end>>))
                /\ best.source_pages # <<"full_pdf_search">>
          /\ MatchingCandidates = {} =>
                best.source_pages \in {<<>>, <<"full_pdf_search">>}

\* every window was searched without a match and the whole document gave the values
C11_Witness ==
    /\ FinReturned
    /\ examined # <<>>
    /\ examined = candidate_pages
    /\ full_searches = 1
    /\ Val(result).eps_current # None
    /\ Val(result).financial_source_pages_hint = <<"full_pdf_search">>

(***************************************************************************)
(* C12.  For the EPS pair and for the profit pair, the returned change is  *)
(* present if and only if the current value is present and the prior       *)
(* value is present and not 0, and it is then (current - prior) / prior *  *)
(* 100; with a prior of 0 or no prior the change is absent.                *)
(***************************************************************************)
Scale(e) == IF e = 0 THEN 1 ELSE Pow10(e)

\* change is (current - prior) / prior * 100 for numbers m / 10^e
IsChangeOf(change, current, prior) ==
    change.num * (prior.m * Scale(current.e))
        = (current.m * Scale(prior.e) - prior.m * Scale(current.e)) * 100 * change.den

ChangeAsSpecified(change, current, prior) ==
    /\ change # None <=> (current # None /\ prior # None /\ Val(prior).m # 0)
    /\ change # None => Val(change).den # 0 /\ IsChangeOf(Val(change), Val(current), Val(prior))

C12_ChangeOnlyWithNonZeroPrior ==
    FinReturned =>
        /\ ChangeAsSpecified(Val(result).eps_change_pct,
                             Val(result).eps_current, Val(result).eps_prior)
        /\ ChangeAsSpecified(Val(result).profit_attributable_change_pct,
                             Val(result).profit_attributable_current_k,
                             Val(result).profit_attributable_prior_k)

\* both priors are 0 and both changes are absent
C12_Witness ==
    /\ FinReturned
    /\ Val(result).eps_current # None
    /\ Val(result).eps_prior = Number(0, 2)
    /\ Val(result).eps_change_pct = None
    /\ Val(result).profit_attributable_current_k = Number(1234, 0)
    /\ Val(result).profit_attributable_prior_k = Number(0, 0)
    /\ Val(result).profit_attributable_change_pct = None

(***************************************************************************)
(* C19.  A captured numeric token that does not parse gives an absent      *)
(* value for that one field only: the extraction still returns, the other  *)
(* captured value of the same match is returned, and the EPS values are    *)
(* kept when a profit token does not parse.                                *)
(***************************************************************************)
\* the text the returned values were matched in
SourceText ==
    IF Val(result).financial_source_pages_hint = <<"full_pdf_search">>
    THEN JoinLines(pages, 0, Len(pages))
    ELSE window_text

\* float() accepts a captured token: digits with at most one decimal point
\* once "," and " " are removed
Parses(g) ==
    /\ \A i \in 1..Len(g) : g[i].k \in {"d", "dot", "comma", "sp"}
    /\ Cardinality({i \in 1..Len(g) : g[i].k = "dot"}) <= 1

C19_UnparsedTokenIsAbsentField ==
    FinReturned /\ Val(result).financial_source_pages_hint # <<>> =>
        LET eps_m == EpsMatch(SourceText)
            prof_m == profit_line_re(SourceText)
        IN  /\ eps_m # NoMatch
            /\ Val(result).eps_current # None <=> Parses(eps_m[1])
            /\ Val(result).eps_prior # None <=> Parses(eps_m[2])
            /\ prof_m # NoMatch =>
                  /\ Val(result).profit_attributable_current_k # None <=> Parses(prof_m[1])
                  /\ Val(result).profit_attributable_prior_k # None <=> Parses(prof_m[2])
                  /\ Val(result).eps_current = parse_number(Some(eps_m[1]))
                  /\ Val(result).eps_prior = parse_number(Some(eps_m[2]))

\* the current profit token "1.234.567" does not parse: that field is absent, the
\* prior profit and both EPS values are returned
C19_Witness ==
    /\ FinReturned
    /\ Val(result).profit_attributable_current_k = None
    /\ Val(result).profit_attributable_prior_k = Number(1100, 0)
    /\ Val(result).eps_current = Number(45, 2)
    /\ Val(result).eps_prior = Number(39, 2)
    /\ Val(result).profit_attributable_change_pct = None

(***************************************************************************)
(* C20.  Boundary detection run twice on the same page sequence gives the  *)
(* same outcome both times: the same (start page, end page), or no section *)
(* both times.  No step of a call writes what a later call reads: the page *)
(* list and the module's pattern and keyword lists are after every step    *)
(* what they were before it.                                               *)
(***************************************************************************)
C20_SameOutcome ==
    runs = 2 /\ pc \in {"done", "raised"} =>
        first_range = Some(<<pc, start_page, end_page>>)

C20_NothingSharedIsWritten == pages' = pages /\ module_lists' = module_lists

C20_SecondRunSameRange ==
    /\ []C20_SameOutcome
    /\ [][C20_NothingSharedIsWritten]_vars

\* the second call has scanned to a break page and returned the range of the first
C20_Witness ==
    /\ runs = 2
    /\ pc = "done"
    /\ stop = "break"
    /\ StartIdx < EndIdx
    /\ first_range = Some(<<"done", start_page, end_page>>)
    /\ module_lists = ModuleLists

(***************************************************************************)
(* What the postprocessing claims speak of.                                *)
(***************************************************************************)
\* a call of postprocess_facts returns in this step
CallReturns == pc' \in {"post_second", "post_done"} /\ pc' # pc
FirstCallReturns == pc = "post_first" /\ pc' = "post_second"
SecondCallReturns == pc = "post_second" /\ pc' = "post_done"

TargetFields ==
    {"ceo_salary_increase_pct", "sti_total_esg_weight_pct", "ltip_total_esg_weight_pct",
     "esg_metrics_incentives_present"}
InputFields == {"source_pdf", "ceo_salary_history", "sti_metrics", "ltip_metrics"}

\* the entries of a list-valued field; none when it is null or missing
Entries(field) == IF field.t = "list" THEN field.v ELSE <<>>

Numeric(x) == x.t \in {"num", "numstr"}

\* the positions of the history rows with a numeric year and a numeric amount
ValidRows(h) ==
    {i \in 1..Len(h) : h[i].t = "dict" /\ Numeric(h[i].year) /\ Numeric(h[i].amount)}

\* the row of S that comes last when S is sorted by year, keeping list order among
\* equal years
LastByYear(h, S) ==
    CHOOSE i \in S : \A j \in S : \/ h[j].year.v < h[i].year.v
                                  \/ h[j].year.v = h[i].year.v /\ j <= i

\* the increase the history defines, with the two amounts it is computed from: None
\* with fewer than two valid rows or a previous amount that is not positive
ExpectedIncrease(field) ==
    LET h == Entries(field)
        valid == ValidRows(h)
    IN  IF Cardinality(valid) < 2 THEN None
        ELSE LET latest == LastByYear(h, valid)
                 previous == LastByYear(h, valid \ {latest})
             IN  IF h[previous].amount.v <= 0 THEN None
                 ELSE Some([num |-> (h[latest].amount.v - h[previous].amount.v) * 100,
                            den |-> h[previous].amount.v,
                            terms |-> <<[m |-> h[latest].amount.v, e |-> 0],
                                        [m |-> h[previous].amount.v, e |-> 0]>>])

\* the positions of the entries of the ESG category with a numeric weight
Qualifying(ms) ==
    {i \in 1..Len(ms) : ms[i].t = "dict" /\ ms[i].category = "esg" /\ Numeric(ms[i].weight_pct)}

RECURSIVE SumWeights(_, _)
SumWeights(ms, S) ==
    IF S = {} THEN 0
    ELSE LET i == CHOOSE j \in S : TRUE
         IN  ms[i].weight_pct.v + SumWeights(ms, S \ {i})

ExpectedTotal(field) ==
    IF Qualifying(Entries(field)) = {} THEN None
    ELSE Some(SumWeights(Entries(field), Qualifying(Entries(field))))

HasEsgEntry(field) ==
    \E i \in 1..Len(Entries(field)) :
        Entries(field)[i].t = "dict" /\ Entries(field)[i].category = "esg"

(***************************************************************************)
(* C13.  A second run of postprocess_facts on the record a first run       *)
(* returned changes no field of it.                                        *)
(***************************************************************************)
C13_SecondRunChangesNothing ==
    [][SecondCallReturns => facts' = facts]_vars

\* the first run filled the increase, its note and the flag; the second run is over
C13_Witness ==
    /\ pc = "post_done"
    /\ facts.ceo_salary_increase_pct = Some(Pct(1000000, 900000))
    /\ facts.ceo_salary_increase_pct_source = Some(COMPUTED_NOTE)
    /\ facts.esg_metrics_incentives_present = Some(FALSE)

(***************************************************************************)
(* C14.  postprocess_facts never overrides a supplied value: each of the   *)
(* four derived fields that is present before a call has the same value    *)
(* after it, also when the formula would give another value; and no field  *)
(* but these four and ceo_salary_increase_pct_source is modified.          *)
(***************************************************************************)
C14_SuppliedValuesKept ==
    [][CallReturns =>
          /\ DOMAIN facts' = DOMAIN facts
          /\ \A k \in TargetFields : facts[k] # None => facts'[k] = facts[k]
          /\ \A k \in InputFields : facts'[k] = facts[k]]_vars

\* a supplied increase is still there although the history defines another one
C14_Witness ==
    /\ pc = "post_done"
    /\ facts.ceo_salary_increase_pct = Some(Literal(7, 1))
    /\ ExpectedIncrease(facts.ceo_salary_history) = Some(Pct(1000000, 900000))
    /\ facts.ceo_salary_increase_pct_source = None

(***************************************************************************)
(* C15.  When ceo_salary_increase_pct is absent, a call fills it with      *)
(* (latest - previous) / previous * 100 for the two rows with the greatest *)
(* years among the rows with numeric year and amount, sorted by year; it   *)
(* stays absent with fewer than two such rows or with previous <= 0.       *)
(***************************************************************************)
C15_IncreaseFromHistory ==
    [][FirstCallReturns /\ facts.ceo_salary_increase_pct = None =>
          facts'.ceo_salary_increase_pct = ExpectedIncrease(facts.ceo_salary_history)]_vars

\* the rows are listed latest first, with an unusable row between them
C15_Witness ==
    /\ pc = "post_second"
    /\ facts.ceo_salary_history =
           ListOf(<<Row(VNum(2024), VNum(1000000)), Row(VNum(2024), VText),
                    Row(VNum(2023), VNum(900000))>>)
    /\ facts.ceo_salary_increase_pct = Some(Pct(1000000, 900000))

(***************************************************************************)
(* C16.  When a total ESG weight is absent, a call fills it with the sum   *)
(* of the weights of the entries of its metric list whose category is the  *)
(* ESG category, skipping missing and non-numeric weights; it stays absent *)
(* (not 0) when no entry qualifies.  For the list (esg 10, esg 5,          *)
(* financial 85) the total is 15.                                          *)
(***************************************************************************)
C16_TotalEsgWeight ==
    [][FirstCallReturns =>
          /\ facts.sti_total_esg_weight_pct = None =>
                /\ facts'.sti_total_esg_weight_pct = ExpectedTotal(facts.sti_metrics)
                /\ facts.sti_metrics = ExampleMetrics => facts'.sti_total_esg_weight_pct = Some(15)
          /\ facts.ltip_total_esg_weight_pct = None =>
                facts'.ltip_total_esg_weight_pct = ExpectedTotal(facts.ltip_metrics)]_vars

\* the example list, with its total, next to a list without a usable ESG weight
C16_Witness ==
    /\ pc = "post_second"
    /\ facts.sti_metrics = ExampleMetrics
    /\ facts.sti_total_esg_weight_pct = Some(15)
    /\ facts.ltip_metrics = ListOf(<<Metric("financial", VNum(85))>>)
    /\ facts.ltip_total_esg_weight_pct = None

(***************************************************************************)
(* C17.  After a call the ESG presence flag is never absent: if it was     *)
(* absent before, it is true exactly when the short-term or the long-term  *)
(* list has an entry of the ESG category, and false otherwise, also when   *)
(* a list is empty or missing.                                             *)
(***************************************************************************)
C17_FlagNeverAbsent ==
    [][CallReturns =>
          /\ facts'.esg_metrics_incentives_present # None
          /\ facts.esg_metrics_incentives_present = None =>
                facts'.esg_metrics_incentives_present =
                    Some(HasEsgEntry(facts.sti_metrics) \/ HasEsgEntry(facts.ltip_metrics))]_vars

\* the flag is true for an ESG entry in the long-term list alone
C17_Witness ==
    /\ pc = "post_second"
    /\ facts.sti_metrics = Missing
    /\ facts.ltip_metrics = ListOf(<<Metric("esg", VNum(5))>>)
    /\ facts.ltip_total_esg_weight_pct = Some(5)
    /\ facts.esg_metrics_incentives_present = Some(TRUE)

(***************************************************************************)
(* C18.  postprocess_facts never raises, whatever the facts dict: a        *)
(* malformed salary row or metric entry, also one that is no mapping at    *)
(* all, is discarded.                                                      *)
(***************************************************************************)
C18_NeverRaises ==
    pc # "post_raised"

(***************************************************************************)
(* C25.  Profit values are recorded only together with an EPS match of the *)
(* same text: in every result with eps_current absent, profit current,     *)
(* profit prior and profit change are absent and the page hint and the     *)
(* snippets are empty; a profit match in a text without an EPS match is    *)
(* discarded.                                                              *)
(***************************************************************************)
C25_NoProfitWithoutEps ==
    /\ best.eps_current = None => best = InitialBest
    /\ FinReturned /\ Val(result).eps_current = None =>
          /\ Val(result).eps_prior = None
          /\ Val(result).eps_change_pct = None
          /\ Val(result).profit_attributable_current_k = None
          /\ Val(result).profit_attributable_prior_k = None
          /\ Val(result).profit_attributable_change_pct = None
          /\ Val(result).financial_source_pages_hint = <<>>
          /\ Val(result).financial_sources = {}

\* a window and the whole document have a profit match and no EPS match
C25_Witness ==
    /\ FinReturned
    /\ examined # <<>>
    /\ full_searches = 1
    /\ profit_line_re(window_text) # NoMatch
    /\ profit_line_re(JoinLines(pages, 0, Len(pages))) # NoMatch
    /\ Val(result).eps_current = None
    /\ Val(result).profit_attributable_current_k = None

(***************************************************************************)
(* What the claims about find_end_page on its own speak of.                *)
(***************************************************************************)
\* the last page of the scanned range [startIdx, min(lastPageIndex, startIdx + maxPages)]
ScanBound == Min(LastPageIndex, StartIdx + 40)

\* the page at which the scan stopped: the break page, or the last page of the range
StopPage == IF stop = "break" THEN idx ELSE idx - 1

\* every run of consecutive zero-signal pages in the scanned range is shorter than
\* maxGapWithoutSignal
OnlyShortGaps == \A j \in StartIdx..ScanBound : GapCount(StartIdx, j) < 3

(***************************************************************************)
(* C23.  A page that merely lacks in-section keywords never truncates the  *)
(* section: if every run of consecutive zero-signal pages in the scanned   *)
(* range is shorter than maxGapWithoutSignal, find_end_page returns the    *)
(* last page of the range with a positive signal score (startIdx if there  *)
(* is none), whatever break markers the pages carry.                       *)
(***************************************************************************)
C23_ShortGapsNeverTruncate ==
    Returned /\ OnlyShortGaps =>
        /\ stop = "fallback"
        /\ EndIdx = LastSignalPage(StartIdx, ScanBound)

\* a break marker on a zero-signal page past the minimum length did not end the section
C23_Witness ==
    /\ Returned
    /\ OnlyShortGaps
    /\ \E j \in (StartIdx + 3)..(EndIdx - 1) : BreakScore(j) > 0 /\ SignalScore(j) = 0

(***************************************************************************)
(* C24.  For every call of find_end_page with 0 <= startIdx <=             *)
(* lastPageIndex the scan inspects at most maxPages + 1 pages and          *)
(* terminates; the returned page is startIdx or a page with a positive     *)
(* signal score, every page after it up to and including the page at which *)
(* the scan stopped has signal score 0, and it is at most                  *)
(* min(lastPageIndex, startIdx + maxPages).                                *)
(***************************************************************************)
C24_ScanState ==
    /\ pc = "scan" => StartIdx <= idx /\ idx - StartIdx <= 40 + 1 /\ idx <= ScanBound + 1
    /\ Returned =>
          /\ StopPage - StartIdx + 1 <= 40 + 1
          /\ StopPage <= ScanBound
          /\ EndIdx = StartIdx \/ SignalScore(EndIdx) > 0
          /\ StartIdx <= EndIdx
          /\ EndIdx <= ScanBound
          /\ \A j \in (EndIdx + 1)..StopPage : SignalScore(j) = 0

\* a step of the scan returns or moves on to the next page: the scan cannot go on
\* for ever below its bound, and past the bound the only step is the return
C24_ScanStep ==
    pc = "scan" =>
        \/ pc' = "done" /\ idx' = idx /\ (idx > ScanBound => stop' = "fallback")
        \/ pc' = "scan" /\ idx' = idx + 1 /\ idx <= ScanBound

C24_BoundedScanReturnsSignalPage ==
    /\ []C24_ScanState
    /\ [][C24_ScanStep]_vars

\* a start page without signal, in a document longer than the scanned range: all 41
\* pages of the range were inspected and a later signal page was returned
C24_Witness ==
    /\ Returned
    /\ SignalScore(StartIdx) = 0
    /\ LastPageIndex > StartIdx + 40
    /\ StopPage = StartIdx + 40
    /\ StartIdx < EndIdx
    /\ EndIdx < StopPage

(***************************************************************************)
(* The runs of the pipeline, stated from their inputs alone.               *)
(***************************************************************************)
IsPrefix(s, t) == Len(s) <= Len(t) /\ s = SubSeq(t, 1, Len(s))

\* the steps of extract_facts_from_full_pdf in the order the claim gives them
PipelineSteps ==
    <<"extract_rem_section_from_pdf", "extract_facts_from_report", "setdefault",
      "extract_financial_performance", "postprocess_facts", "postprocess_facts", "json.dump">>

SectionFound(p) == choose_best_rem_start(jobs[p].doc) # None

\* the run has opened its output file
HasWritten(p) == ppc[p] \in {"dump", "peek", "judge", "done"} \/ Len(reads[p]) > 0

\* the facts dict a run on this document saves when nothing else runs
AloneFacts(job) ==
    LET r == extract_rem_section_from_pdf(job.doc).v
        filled == add_financial_performance(add_metadata(job.reply.v, job.pdf_path, r), job.doc)
    IN  postprocess_facts(postprocess_facts(filled).v).v

(***************************************************************************)
(* C22.  When boundary detection raises for want of a title page, the run  *)
(* of extract_facts_from_full_pdf ends there: the fact-filling             *)
(* collaborator is not called, no facts dict exists, the financial scanner *)
(* and postprocess_facts are not run and no file is opened for writing.    *)
(* When the section is found the steps done are, at every moment, a prefix *)
(* of: fact filling, page metadata, financial extraction, postprocessing,  *)
(* one write; a run that has returned has done all of them.                *)
(***************************************************************************)
C22_StopsOnSectionNotFound ==
    \A p \in RunIds :
        /\ IsPrefix(trace[p], PipelineSteps)
        /\ ~SectionFound(p) =>
              /\ IsPrefix(trace[p], <<"extract_rem_section_from_pdf">>)
              /\ ppc[p] \in {"start", "raised"}
              /\ ppc[p] = "raised" => error[p] = Some("ValueError")
              /\ rem[p] = None /\ run_facts[p] = None
              /\ ~HasWritten(p)
              /\ \A f \in FactsFiles : files[f].writer # p
        /\ SectionFound(p) =>
              /\ trace[p] # <<>> => rem[p] # None
              /\ ppc[p] \in {"peek", "judge", "done"} => trace[p] = PipelineSteps
              /\ (\E f \in FactsFiles : files[f].writer = p /\ files[f].state = "written") =>
                     trace[p] = PipelineSteps /\ ppc[p] \in {"peek", "judge", "done", "raised"}

\* one run ended with the error of a document without a title page, the other
\* found its section, did every step and saved its facts
C22_Witness ==
    \E p, q \in RunIds :
        /\ ~SectionFound(p) /\ ppc[p] = "raised" /\ trace[p] = <<"extract_rem_section_from_pdf">>
        /\ SectionFound(q) /\ ppc[q] = "done" /\ trace[q] = PipelineSteps
        /\ files[facts_path(jobs[q].pdf_path)].state = "written"

(***************************************************************************)
(* C21.  Two runs of main on two different documents, interleaved in any   *)
(* way: a run loads from facts.json only what it wrote itself, never finds *)
(* the file half written, and the facts it hands to judge_all_investors    *)
(* are the facts a run on its document alone saves.                        *)
(***************************************************************************)
C21_RunsAreIsolated ==
    \A p \in RunIds :
        /\ \A k \in 1..Len(reads[p]) : reads[p][k].writer = p
        /\ error[p] # Some("JSONDecodeError")
        /\ ppc[p] = "done" => reads[p][2].content = Some(AloneFacts(jobs[p]))

====
